---- MODULE Spec2Model ----
(***************************************************************************)
(* Verification model of the disk-cleanup core of new-c: the rule catalog  *)
(* (core/rules.py), the cancellable Scanner (core/scanner.py), the Cleanup *)
(* Executor (core/cleaner.py) and the Advisory Client's retry/cache layer  *)
(* (core/ai_client.py).  The program is a Windows tool: paths are Windows  *)
(* paths (pathlib.WindowsPath), strings are TLA+ strings.                  *)
(***************************************************************************)
EXTENDS Integers, Sequences, FiniteSets, TLC

VARIABLES
    \* ---- Cleanup Executor (Cleaner.clean) ----
    clean_pc,        \* "run" while the for-loop of clean runs, "done" after return
    dry_run,         \* Cleaner.dry_run
    allow_delete,    \* clean(..., allow_delete)
    clean_items,     \* the input sequence of ScanItem
    clean_idx,       \* position of the for-loop in clean_items
    deleted,         \* CleanupResult.deleted
    failed,          \* CleanupResult.failed
    skipped,         \* CleanupResult.skipped
    disk,            \* set of paths (lower-cased) that exist on disk
    disk0,           \* the paths that existed when clean was called
    ops,             \* destructive calls issued so far: send2trash / unlink / rmdir
    \* ---- Scanner (Scanner.scan) ----
    world,           \* the directory tree, home directory and failing stats
    stop_flag,       \* the shared stop flag  stop_flag["stop"]
    stop_at_start,   \* value of the flag when scan() was entered
    scan,            \* the local state of Scanner.scan
    uncancelled,     \* ScanResult of the same scan over the same tree, flag never set
    \* ---- Advisory Client (AIClient.request_analysis) ----
    ai_pc,           \* "idle", "attempt", "returned", "raised"
    cache_enabled,   \* AIClient.cache_enabled
    cache,           \* AIClient.cache (in memory)
    cache_file,      \* content of cache_path on disk
    payload,         \* the payload of the call in progress
    attempt,         \* loop variable of "for attempt in range(1, 4)"
    last_error,      \* last_error of the call in progress
    net_calls,       \* requests.post calls issued during the current call
    events,          \* progress events emitted during the current call
    sleeps,          \* time.sleep delays of the current call
    ai_result,       \* value returned by the current call
    errors_raised,   \* exceptions raised to the caller by the current call
    calls_made,      \* request_analysis calls started so far
    last_reply,      \* what json.loads returned in the latest attempt (JNull: nothing)
    cache_before,    \* the cache in memory and on disk when the current call began
    callback_raised, \* did the progress callback raise during the current call
    \* ---- Local Advisor (build_local_ai_result, merge_remote_into_local) ----
    adv_pc,          \* "start", "payload", "local", "merged", "merge_raised"
    adv_items,       \* the scanned items handed to the advisor
    adv_local,    \* build_local_ai_result(items, stats)
    adv_remote,   \* the remote result handed to merge_remote_into_local
    adv_merged,   \* what merge_remote_into_local returned
    adv_payload,  \* what PayloadBuilder.build returned for the items
    \* ---- Orchestrator (MainWindow) ----
    scan_in_progress,  \* MainWindow.scan_in_progress
    ai_in_progress,    \* MainWindow.ai_in_progress
    running,           \* number of running worker threads of each kind
    signals,           \* finished/error signals queued for the GUI thread
    ui_items,          \* MainWindow.items
    ai_advice,         \* MainWindow.ai_advice
    settings,          \* MainWindow.settings: is an api_key set
    last_step,          \* the handler or worker step taken last, and how it ended
    payload_items,      \* paths of the items the payload of the running AIWorker was built from
    stop_history,       \* the latest stop_scan: "none", "before" or "during" the latest scan
    \* ---- Classifier (Scanner._classify_path) ----
    cls_pc,    \* "start", "done"
    cls_path,    \* the path handed to _classify_path
    cls_fallback,    \* the fallback category (the rule's category)
    cls_category    \* the category returned

cleanVars == <<clean_pc, dry_run, allow_delete, clean_items, clean_idx,
               deleted, failed, skipped, disk, disk0, ops>>
scanVars  == <<world, stop_flag, stop_at_start, scan, uncancelled>>
aiVars    == <<ai_pc, cache_enabled, cache, cache_file, payload, attempt, last_error,
               net_calls, events, sleeps, ai_result, errors_raised, calls_made,
               last_reply, cache_before, callback_raised>>
advVars   == <<adv_pc, adv_items, adv_local, adv_remote, adv_merged, adv_payload>>
uiVars    == <<scan_in_progress, ai_in_progress, running, signals, ui_items, ai_advice,
               settings, last_step, payload_items, stop_history>>
clsVars == <<cls_pc, cls_path, cls_fallback, cls_category>>
vars      == <<cleanVars, scanVars, aiVars, advVars, uiVars, clsVars>>

None == "None"

(***************************************************************************)
(* Strings and Windows paths                                               *)
(***************************************************************************)
UpperChars == "ABCDEFGHIJKLMNOPQRSTUVWXYZ"
LowerChars == "abcdefghijklmnopqrstuvwxyz"

LowerMap ==
    [c \in {SubSeq(UpperChars, i, i) : i \in 1..26} |->
        LET i == CHOOSE k \in 1..26 : SubSeq(UpperChars, k, k) = c
        IN  SubSeq(LowerChars, i, i)]

\* str.lower()
RECURSIVE Lower(_)
Lower(s) ==
    IF s = "" THEN ""
    ELSE LET c == SubSeq(s, 1, 1)
         IN  (IF c \in DOMAIN LowerMap THEN LowerMap[c] ELSE c)
                 \o Lower(SubSeq(s, 2, Len(s)))

UpperMap ==
    [c \in {SubSeq(LowerChars, i, i) : i \in 1..26} |->
        LET i == CHOOSE k \in 1..26 : SubSeq(LowerChars, k, k) = c
        IN  SubSeq(UpperChars, i, i)]

\* str.upper()
RECURSIVE Upper(_)
Upper(s) ==
    IF s = "" THEN ""
    ELSE LET c == SubSeq(s, 1, 1)
         IN  (IF c \in DOMAIN UpperMap THEN UpperMap[c] ELSE c)
                 \o Upper(SubSeq(s, 2, Len(s)))

\* str.startswith(prefix)
StartsWith(s, prefix) ==
    /\ Len(prefix) <= Len(s)
    /\ SubSeq(s, 1, Len(prefix)) = prefix

\* str.endswith(suffix)
EndsWith(s, suffix) ==
    /\ Len(suffix) <= Len(s)
    /\ SubSeq(s, Len(s) - Len(suffix) + 1, Len(s)) = suffix

\* "sub in s"
Contains(s, sub) ==
    \E i \in 1..(Len(s) - Len(sub) + 1) : SubSeq(s, i, i + Len(sub) - 1) = sub

\* fnmatch of a single path component against a pattern whose only
\* wildcard is "*" (the only wildcard the rule catalog uses)
RECURSIVE GlobMatch(_, _)
GlobMatch(s, p) ==
    IF p = "" THEN s = ""
    ELSE IF SubSeq(p, 1, 1) = "*"
         THEN \E k \in 0..Len(s) :
                  GlobMatch(SubSeq(s, k + 1, Len(s)), SubSeq(p, 2, Len(p)))
         ELSE /\ s # ""
              /\ SubSeq(s, 1, 1) = SubSeq(p, 1, 1)
              /\ GlobMatch(SubSeq(s, 2, Len(s)), SubSeq(p, 2, Len(p)))

\* pathlib.WindowsPath(text) followed by str(): "/" becomes "\", repeated
\* separators collapse, a trailing separator is dropped except on a drive root
RECURSIVE CollapseSeps(_, _)
CollapseSeps(s, prevSep) ==
    IF s = "" THEN ""
    ELSE LET c0   == SubSeq(s, 1, 1)
             c    == IF c0 = "/" THEN "\\" ELSE c0
             rest == SubSeq(s, 2, Len(s))
         IN  IF c = "\\"
             THEN (IF prevSep THEN "" ELSE "\\") \o CollapseSeps(rest, TRUE)
             ELSE c \o CollapseSeps(rest, FALSE)

WinPath(text) ==
    LET t == CollapseSeps(text, FALSE)
    IN  IF Len(t) > 3 /\ EndsWith(t, "\\") THEN SubSeq(t, 1, Len(t) - 1) ELSE t

\* path / name
Join(p, name) ==
    IF EndsWith(p, "\\") THEN p \o name ELSE p \o "\\" \o name

\* Path.name: the last component
RECURSIVE PathName(_)
PathName(p) ==
    IF \E i \in 1..Len(p) : SubSeq(p, i, i) = "\\"
    THEN PathName(SubSeq(p,
            (CHOOSE i \in 1..Len(p) : SubSeq(p, i, i) = "\\"
                 /\ \A j \in 1..(i - 1) : SubSeq(p, j, j) # "\\") + 1, Len(p)))
    ELSE p

\* PurePath.suffix of a file name: from the last "." on, unless that dot is
\* the first or the last character
Suffix(name) ==
    LET dots == { i \in 1..Len(name) : SubSeq(name, i, i) = "." }
        last == CHOOSE i \in dots : \A j \in dots : j <= i
    IN  IF dots = {} THEN ""
        ELSE IF last > 1 /\ last < Len(name) THEN SubSeq(name, last, Len(name)) ELSE ""

\* Path.parent
PathParent(p) ==
    LET seps == { i \in 1..Len(p) : SubSeq(p, i, i) = "\\" }
        last == CHOOSE i \in seps : \A j \in seps : j <= i
    IN  IF seps = {} THEN p
        ELSE IF Cardinality(seps) = 1 THEN SubSeq(p, 1, last)
        ELSE SubSeq(p, 1, last - 1)


IsPrefix(s, t) == Len(s) <= Len(t) /\ SubSeq(t, 1, Len(s)) = s

(***************************************************************************)
(* rules.py                                                                *)
(***************************************************************************)
\* The list is written with raw strings holding doubled backslashes;
\* Path() collapses them.
SYSTEM_FORBIDDEN_DIRS ==
    << WinPath("C:\\\\Windows\\\\System32"),
       WinPath("C:\\\\Windows\\\\WinSxS"),
       WinPath("C:\\\\Program Files"),
       WinPath("C:\\\\Program Files (x86)"),
       WinPath("C:\\\\System Volume Information") >>

ForbiddenRootsLower == {Lower(SYSTEM_FORBIDDEN_DIRS[i]) : i \in 1..Len(SYSTEM_FORBIDDEN_DIRS)}

\* is_forbidden(path): rules.py lines 94-96
is_forbidden(path) ==
    \E normalized \in {Lower(WinPath(path))} :
        \E root \in ForbiddenRootsLower : StartsWith(normalized, root)

\* _user_profile_paths()
_user_profile_paths(home) ==
    << home, Join(Join(home, "AppData"), "Local"), Join(Join(home, "AppData"), "Roaming") >>

\* build_rules(): the catalog, in priority order; home is Path.home()
build_rules(home) ==
    LET local   == Join(Join(home, "AppData"), "Local")
        roaming == Join(Join(home, "AppData"), "Roaming")
    IN << [ name |-> "UserTemp",
            base_paths |-> << Join(local, "Temp"), WinPath("C:\\\\Windows\\\\Temp") >>,
            include_patterns |-> << "*" >>,
            risk |-> "low", category |-> "temp" ],
          [ name |-> "AppCaches",
            base_paths |-> << local >>,
            include_patterns |-> << "*Cache*", "*Code Cache*", "*GPUCache*", "*Crashpad*", "*Logs*" >>,
            risk |-> "low", category |-> "cache" ],
          [ name |-> "LogsAndDumps",
            base_paths |-> _user_profile_paths(home),
            include_patterns |-> << "*.log", "*.dmp" >>,
            risk |-> "low", category |-> "logs" ],
          [ name |-> "BrowserCaches",
            base_paths |-> << Join(Join(Join(local, "Google"), "Chrome"), "User Data"),
                              Join(Join(Join(local, "Microsoft"), "Edge"), "User Data"),
                              Join(Join(Join(roaming, "Mozilla"), "Firefox"), "Profiles") >>,
            include_patterns |-> << "*Cache*", "*Code Cache*", "*GPUCache*" >>,
            risk |-> "medium", category |-> "browser_cache" ],
          [ name |-> "WindowsUpdateCache",
            base_paths |-> << WinPath("C:\\\\Windows\\\\SoftwareDistribution\\\\Download") >>,
            include_patterns |-> << "*" >>,
            risk |-> "medium", category |-> "system_cache" ] >>

\* One rule of match_rule: the path lies under a base of the rule and the
\* pattern list is the wildcard or one pattern matches.  Path.match compares
\* the last component case-insensitively (Windows flavour); the second test
\* is the literal substring test "pattern.lower() in str(path).lower()".
RuleMatches(path, rule) ==
    \E b \in 1..Len(rule.base_paths) :
        /\ StartsWith(Lower(path), Lower(rule.base_paths[b]))
        /\ \/ rule.include_patterns = << "*" >>
           \/ \E k \in 1..Len(rule.include_patterns) :
                  \/ GlobMatch(Lower(PathName(path)), Lower(rule.include_patterns[k]))
                  \/ Contains(Lower(path), Lower(rule.include_patterns[k]))

\* the "None" that match_rule returns when no rule matches
NoRule ==
    [ name |-> None, base_paths |-> << >>, include_patterns |-> << >>,
      risk |-> None, category |-> None ]

\* match_rule(path, rules): the first matching rule, or None
match_rule(path, rules) ==
    IF \E r \in 1..Len(rules) : RuleMatches(path, rules[r])
    THEN rules[CHOOSE r \in 1..Len(rules) :
                   /\ RuleMatches(path, rules[r])
                   /\ \A q \in 1..(r - 1) : ~RuleMatches(path, rules[q])]
    ELSE NoRule

\* suggestion_targets(threshold_bytes)
suggestion_targets(home) ==
    << Join(home, "Downloads"), Join(home, "Desktop"), Join(home, "Documents") >>

(***************************************************************************)
(* cleaner.py: Cleaner.clean                                               *)
(***************************************************************************)
MaxCleanItems == 3

TrashError  == "send2trash failed"
DeleteError == "unlink failed"

SeqsUpTo(S, n) == UNION { [1..k -> S] : k \in 0..n }

\* Path.exists() / Path.is_dir() on the case-insensitive file system
PathExists(d, path) == Lower(path) \in DOMAIN d
PathIsDir(d, path)  == PathExists(d, path) /\ d[Lower(path)] = "dir"
\* line 40 with the fresh is_forbidden recheck left out
CleanRefusesFlagsOnly(item, path) ==
    item.is_suggestion_only \/ item.is_forbidden

\* line 40: the policy test of clean
CleanRefuses(item, path) ==
    item.is_suggestion_only \/ item.is_forbidden \/ is_forbidden(path)

\* what one iteration adds to the result lists and does to the disk
Outcome(del, fail, skip, calls, gone) ==
    [deleted |-> del, failed |-> fail, skipped |-> skip, ops |-> calls, removed |-> gone]

Call(op, path, error) == [op |-> op, path |-> path, error |-> error]

\* lines 54-61 with the inner failure swallowed instead of recorded
HardDeleteSilent(item, path, d, hard_ok) ==
    LET op == IF PathIsDir(d, path) THEN "rmdir" ELSE "unlink"
    IN  IF hard_ok
        THEN Outcome(<< [path |-> item.path, bytes |-> item.size_bytes, method |-> "delete"] >>,
                     << >>, << >>, << Call(op, path, None) >>, TRUE)
        ELSE Outcome(<< >>, << >>, << >>, << Call(op, path, DeleteError) >>, FALSE)

\* lines 54-61: os.rmdir for a directory, else unlink; hard_ok is the
\* environment's answer
HardDelete(item, path, d, hard_ok) ==
    LET op == IF PathIsDir(d, path) THEN "rmdir" ELSE "unlink"
    IN  IF hard_ok
        THEN Outcome(<< [path |-> item.path, bytes |-> item.size_bytes, method |-> "delete"] >>,
                     << >>, << >>, << Call(op, path, None) >>, TRUE)
        ELSE Outcome(<< >>, << [path |-> item.path, error |-> DeleteError] >>, << >>,
                     << Call(op, path, DeleteError) >>, FALSE)

\* lines 49-63 with the test of allow_delete left out
SoftDeleteAlwaysHard(item, path, d, allow, trash_ok, hard_ok) ==
    IF trash_ok
    THEN Outcome(<< [path |-> item.path, bytes |-> item.size_bytes, method |-> "trash"] >>,
                 << >>, << >>, << Call("send2trash", path, None) >>, TRUE)
    ELSE LET h == HardDelete(item, path, d, hard_ok)
         IN  [h EXCEPT !.ops = << Call("send2trash", path, TrashError) >> \o @]

\* lines 49-63: send2trash, and on its failure the hard delete if allowed
SoftDelete(item, path, d, allow, trash_ok, hard_ok) ==
    IF trash_ok
    THEN Outcome(<< [path |-> item.path, bytes |-> item.size_bytes, method |-> "trash"] >>,
                 << >>, << >>, << Call("send2trash", path, None) >>, TRUE)
    ELSE IF allow
    THEN LET h == HardDelete(item, path, d, hard_ok)
         IN  [h EXCEPT !.ops = << Call("send2trash", path, TrashError) >> \o @]
    ELSE Outcome(<< >>, << [path |-> item.path, error |-> TrashError] >>, << >>,
                 << Call("send2trash", path, TrashError) >>, FALSE)

\* lines 39-63 with the dry-run test left out
CleanOneNoDryRun(item, d, dry, allow, trash_ok, hard_ok) ==
    LET path == WinPath(item.path)
    IN  IF CleanRefuses(item, path)
        THEN Outcome(<< >>, << >>, << [path |-> item.path, reason |-> "forbidden_or_suggestion"] >>,
                     << >>, FALSE)
        ELSE IF ~PathExists(d, path)
        THEN Outcome(<< >>, << >>, << [path |-> item.path, reason |-> "missing"] >>, << >>, FALSE)
        ELSE SoftDelete(item, path, d, allow, trash_ok, hard_ok)

\* lines 39-63: the body of "for item in items"
CleanOne(item, d, dry, allow, trash_ok, hard_ok) ==
    LET path == WinPath(item.path)
    IN  IF CleanRefuses(item, path)
        THEN Outcome(<< >>, << >>, << [path |-> item.path, reason |-> "forbidden_or_suggestion"] >>,
                     << >>, FALSE)
        ELSE IF ~PathExists(d, path)
        THEN Outcome(<< >>, << >>, << [path |-> item.path, reason |-> "missing"] >>, << >>, FALSE)
        ELSE IF dry
        THEN Outcome(<< [path |-> item.path, bytes |-> item.size_bytes, dry_run |-> TRUE] >>,
                     << >>, << >>, << >>, FALSE)
        ELSE SoftDelete(item, path, d, allow, trash_ok, hard_ok)

InitClean ==
    \* What exists on disk when clean is called: lower-cased path -> kind
    LET CleanDisk ==
            [ p \in { "c:\\users\\u\\appdata\\local\\temp\\a.log",
                      "c:\\users\\u\\downloads\\big.iso",
                      "c:\\users\\u\\appdata\\local\\temp\\b.tmp",
                      "c:\\program files\\app\\x.dll",
                      "c:\\windows\\system32\\drivers\\etc\\hosts",
                      "c:\\users\\u\\appdata\\local\\temp\\old" } |->
                IF p = "c:\\users\\u\\appdata\\local\\temp\\old" THEN "dir" ELSE "file" ]
    IN
    \* Items handed to the Cleanup Executor.  The candidate set may be edited
    \* between scan and cleanup, so it holds flagged items, paths under the
    \* protected roots written in any case or with "/" separators, a directory,
    \* and a path that no longer exists.
    LET CleanPool ==
            { [ path |-> "C:\\Users\\u\\AppData\\Local\\Temp\\a.log", size_bytes |-> 10,
                is_forbidden |-> FALSE, is_suggestion_only |-> FALSE, ai_level |-> "L1" ],
              [ path |-> "C:\\Users\\u\\Downloads\\big.iso", size_bytes |-> 600,
                is_forbidden |-> FALSE, is_suggestion_only |-> TRUE, ai_level |-> "L1" ],
              [ path |-> "C:\\Users\\u\\AppData\\Local\\Temp\\b.tmp", size_bytes |-> 20,
                is_forbidden |-> TRUE, is_suggestion_only |-> FALSE, ai_level |-> "L2" ],
              [ path |-> "c:\\program files\\App\\x.dll", size_bytes |-> 30,
                is_forbidden |-> FALSE, is_suggestion_only |-> FALSE, ai_level |-> "L1" ],
              [ path |-> "C:/Windows/System32/drivers/etc/hosts", size_bytes |-> 1,
                is_forbidden |-> FALSE, is_suggestion_only |-> FALSE, ai_level |-> "L1" ],
              [ path |-> "C:\\Users\\u\\AppData\\Local\\Temp\\old", size_bytes |-> 0,
                is_forbidden |-> FALSE, is_suggestion_only |-> FALSE, ai_level |-> "L2" ],
              [ path |-> "C:\\Users\\u\\Downloads\\gone.tmp", size_bytes |-> 5,
                is_forbidden |-> FALSE, is_suggestion_only |-> FALSE, ai_level |-> "L5" ] }
    IN
    /\ clean_pc = "run"
    /\ dry_run \in BOOLEAN
    /\ allow_delete \in BOOLEAN
    /\ clean_items \in SeqsUpTo(CleanPool, MaxCleanItems)
    /\ clean_idx = 1
    /\ deleted = << >>
    /\ failed = << >>
    /\ skipped = << >>
    /\ disk = CleanDisk
    /\ disk0 = CleanDisk
    /\ ops = << >>

\* One iteration of "for item in items".  trash_ok and hard_ok are the
\* outcomes of send2trash and of unlink/rmdir, decided by the environment.
CleanItem ==
    LET RemovePath(d, path) == [ q \in DOMAIN d \ {Lower(path)} |-> d[q] ]
    IN
    /\ clean_pc = "run"
    /\ clean_idx <= Len(clean_items)
    /\ \E trash_ok \in BOOLEAN, hard_ok \in BOOLEAN :
        \E out \in {CleanOne(clean_items[clean_idx], disk, dry_run, allow_delete, trash_ok, hard_ok)} :
            /\ deleted' = deleted \o out.deleted
            /\ failed' = failed \o out.failed
            /\ skipped' = skipped \o out.skipped
            /\ ops' = ops \o out.ops
            /\ disk' = IF out.removed
                       THEN RemovePath(disk, WinPath(clean_items[clean_idx].path)) ELSE disk
    /\ clean_idx' = clean_idx + 1
    /\ UNCHANGED <<clean_pc, dry_run, allow_delete, clean_items, disk0>>
    /\ UNCHANGED <<scanVars, aiVars, advVars, uiVars, clsVars>>

\* line 64: return CleanupResult(deleted, failed, skipped)
CleanReturn ==
    /\ clean_pc = "run"
    /\ clean_idx > Len(clean_items)
    /\ clean_pc' = "done"
    /\ UNCHANGED <<dry_run, allow_delete, clean_items, clean_idx, deleted, failed,
                   skipped, disk, disk0, ops>>
    /\ UNCHANGED <<scanVars, aiVars, advVars, uiVars, clsVars>>

(***************************************************************************)
(* scanner.py: Scanner.scan                                                *)
(***************************************************************************)
RECENT_SECONDS == 60 * 60 * 24

LargeFileThreshold == 500 * 1024 * 1024

MaxStatFail == 1

File(n, sz, age) == [name |-> n, size |-> sz, age |-> age]
Dir(ds, fs) == [dirs |-> ds, files |-> fs]

Worlds ==
    \* the choices of files whose stat() raises, and with which error
    LET StatFailures(tree) ==
            \* lower-cased paths of all files of a tree
            LET FilesOf(t) ==
                    UNION { { Lower(Join(d, t[d].files[i].name)) : i \in 1..Len(t[d].files) } : d \in DOMAIN t }
            IN
            LET StatErrors == {"PermissionError", "FileNotFoundError", "OSError"}
            IN
            UNION { [S -> StatErrors] : S \in { T \in SUBSET FilesOf(tree) : Cardinality(T) <= MaxStatFail } }
    IN
    LET Homes ==
            \* A profile at the drive root: protected directories are met inside a walk.
            LET RootTree ==
                    ("c:\\" :> Dir(<<"Program Files", "Windows">>, <<File("Program Files.log", 2, 10)>>))
                 @@ ("c:\\program files" :> Dir(<<"App">>, <<File("install.log", 4, 10)>>))
                 @@ ("c:\\program files\\app" :> Dir(<< >>, <<File("app.log", 6, 10)>>))
                 @@ ("c:\\windows" :> Dir(<<"System32", "Temp">>, <<File("win.log", 8, 100000)>>))
                 @@ ("c:\\windows\\system32" :> Dir(<< >>, <<File("sys.log", 1, 10)>>))
                 @@ ("c:\\windows\\temp" :> Dir(<< >>, <<File("w.log", 7, 100)>>))
            IN
            \* The profile of the LocalSystem account lies under a protected root.
            LET SystemTree ==
                    ("c:\\windows\\system32\\config\\systemprofile" :> Dir(<<"AppData">>, <<File("svc.log", 5, 10)>>))
                 @@ ("c:\\windows\\system32\\config\\systemprofile\\appdata" :> Dir(<<"Local">>, << >>))
                 @@ ("c:\\windows\\system32\\config\\systemprofile\\appdata\\local" :> Dir(<<"Temp">>, << >>))
                 @@ ("c:\\windows\\system32\\config\\systemprofile\\appdata\\local\\temp" :> Dir(<< >>, <<File("s.tmp", 9, 10)>>))
                 @@ ("c:\\windows\\temp" :> Dir(<< >>, <<File("w.tmp", 7, 100)>>))
                 @@ ("c:\\windows\\softwaredistribution\\download" :> Dir(<< >>, <<File("kb.cab", 70, 100000)>>))
            IN
            \* Directory trees the scan runs over: lower-cased directory path -> listing
            \* in the order os.walk returns it (names in their on-disk case).
            \* An ordinary profile; the on-disk name "TEMP" differs in case from the
            \* catalog's "Temp", and Downloads holds a 600 MB file.
            LET UserTree ==
                    ("c:\\users\\u" :> Dir(<<"AppData", "Downloads">>, <<File("setup.LOG", 3, 100000)>>))
                 @@ ("c:\\users\\u\\appdata" :> Dir(<<"Local">>, << >>))
                 @@ ("c:\\users\\u\\appdata\\local" :> Dir(<<"TEMP">>, <<File("IconCache.db", 40, 50)>>))
                 @@ ("c:\\users\\u\\appdata\\local\\temp" :> Dir(<< >>, <<File("a.log", 10, 90000), File("b.tmp", 20, 60)>>))
                 @@ ("c:\\users\\u\\downloads" :> Dir(<< >>, <<File("big.iso", 600 * 1024 * 1024, 200000)>>))
                 @@ ("c:\\windows\\temp" :> Dir(<< >>, <<File("w.tmp", 7, 100)>>))
            IN
            { [home |-> "C:\\Users\\u", tree |-> UserTree],
              [home |-> "C:\\Windows\\System32\\config\\systemprofile", tree |-> SystemTree],
              [home |-> "C:\\", tree |-> RootTree] }
    IN
    UNION { { [home |-> h.home, tree |-> h.tree, stat_fail |-> sf] : sf \in StatFailures(h.tree) } : h \in Homes }

\* Scanner.__init__ and the first lines of scan: self.rules = build_rules(),
\* empty result lists, position before the first poll
InitScanner ==
    [ pc |-> "base", rule |-> 1, base |-> 1, stack |-> << >>, current |-> "",
      files |-> << >>, items |-> << >>, skipped |-> << >>, seen_paths |-> {},
      files_seen |-> 0, items_found |-> 0 ]

ScanRunning == {"base", "dir", "file"}
\* "raised": an exception left scan (ScanWorker.run turns it into the error signal)
ScanEnded   == {"completed", "stopped", "raised"}

\* next iteration of "for base in rule.base_paths" / "for rule in self.rules",
\* or the end of scan
NextBase(s, w) ==
    LET rules == build_rules(w.home)
    IN  IF s.base < Len(rules[s.rule].base_paths)
        THEN [s EXCEPT !.pc = "base", !.base = @ + 1]
        ELSE IF s.rule < Len(rules)
        THEN [s EXCEPT !.pc = "base", !.rule = @ + 1, !.base = 1]
        ELSE [s EXCEPT !.pc = "completed"]

\* next directory yielded by os.walk, if any
NextDir(s, w) ==
    IF s.stack # << >> THEN [s EXCEPT !.pc = "dir"] ELSE NextBase(s, w)

\* next iteration of "for file in files"
NextFile(s, w) ==
    IF s.files # << >> THEN [s EXCEPT !.pc = "file"] ELSE NextDir(s, w)

\* lines 168-176: poll, base.exists(), start of os.walk(base)
StepBase(s, w, stop) ==
    LET base == build_rules(w.home)[s.rule].base_paths[s.base]
    IN  IF stop THEN [s EXCEPT !.pc = "stopped"]
        ELSE IF Lower(base) \notin DOMAIN w.tree THEN NextBase(s, w)
        ELSE [s EXCEPT !.pc = "dir", !.stack = << base >>]

\* lines 177-186 without "dirs[:] = []": the walk descends below a
\* protected directory
StepDirNoPrune(s, w, stop) ==
    LET current  == Head(s.stack)
        listing  == w.tree[Lower(current)]
        children == [i \in 1..Len(listing.dirs) |-> Join(current, listing.dirs[i])]
    IN  IF stop THEN [s EXCEPT !.pc = "stopped"]
        ELSE IF is_forbidden(current)
        THEN NextDir([s EXCEPT !.stack = children \o Tail(@), !.current = current, !.files = << >>], w)
        ELSE NextFile([s EXCEPT !.stack = children \o Tail(@), !.current = current,
                                !.files = listing.files], w)

\* lines 177-187: os.walk yields (root, dirs, files); poll; prune a
\* protected directory, else its sub-directories are walked next, depth first
StepDir(s, w, stop) ==
    LET current  == Head(s.stack)
        listing  == w.tree[Lower(current)]
        children == [i \in 1..Len(listing.dirs) |-> Join(current, listing.dirs[i])]
    IN  IF stop THEN [s EXCEPT !.pc = "stopped"]
        ELSE IF is_forbidden(current)
        THEN NextDir([s EXCEPT !.stack = Tail(@), !.current = current, !.files = << >>], w)
        ELSE NextFile([s EXCEPT !.stack = children \o Tail(@), !.current = current,
                                !.files = listing.files], w)

\* lines 211-231 with the path not lower-cased before the seen_paths test
EmitCaseSensitive(s, w, path, f) ==
    LET rule == build_rules(w.home)[s.rule]
        normalized_path == path
    IN  IF normalized_path \in s.seen_paths THEN s
        ELSE [s EXCEPT !.seen_paths = @ \cup {normalized_path},
                       !.items = Append(@, [ path |-> path, size_bytes |-> f.size,
                                             rule_name |-> rule.name, rule_risk |-> rule.risk,
                                             is_recent |-> f.age < RECENT_SECONDS,
                                             is_forbidden |-> FALSE,
                                             is_suggestion_only |-> FALSE ]),
                       !.items_found = @ + 1]

\* lines 211-231: emit the item unless its lower-cased path was seen
Emit(s, w, path, f) ==
    LET rule == build_rules(w.home)[s.rule]
        normalized_path == Lower(path)
    IN  IF normalized_path \in s.seen_paths THEN s
        ELSE [s EXCEPT !.seen_paths = @ \cup {normalized_path},
                       !.items = Append(@, [ path |-> path, size_bytes |-> f.size,
                                             rule_name |-> rule.name, rule_risk |-> rule.risk,
                                             is_recent |-> f.age < RECENT_SECONDS,
                                             is_forbidden |-> FALSE,
                                             is_suggestion_only |-> FALSE ]),
                       !.items_found = @ + 1]

\* line 207 catching PermissionError only
StatErrorCaughtPermissionOnly(kind) == kind = "PermissionError"

\* line 207: except (PermissionError, FileNotFoundError, OSError)
StatErrorCaught(kind) == kind \in {"PermissionError", "FileNotFoundError", "OSError"}

\* lines 194-231: what follows the poll in one iteration of "for file in files"
ExamineFile(s, w) ==
    LET f    == Head(s.files)
        path == Join(s.current, f.name)
        rule == build_rules(w.home)[s.rule]
        s1   == [s EXCEPT !.files = Tail(@), !.files_seen = @ + 1]
        key  == Lower(path)
    IN  IF is_forbidden(path) THEN NextFile(s1, w)
        ELSE IF match_rule(path, << rule >>) = NoRule THEN NextFile(s1, w)
        ELSE IF key \in DOMAIN w.stat_fail
        THEN IF StatErrorCaught(w.stat_fail[key])
             THEN NextFile([s1 EXCEPT !.skipped = Append(@, path \o ": " \o w.stat_fail[key])], w)
             ELSE [s1 EXCEPT !.pc = "raised"]
        ELSE NextFile(Emit(s1, w, path, f), w)

\* lines 188-231 with the poll of the stop flag left out
StepFileNoPoll(s, w, stop) == ExamineFile(s, w)

\* lines 188-231: one iteration of "for file in files": poll, then examine
StepFile(s, w, stop) ==
    IF stop THEN [s EXCEPT !.pc = "stopped"] ELSE ExamineFile(s, w)

\* scan() run to its return with the flag never set
RECURSIVE RunScan(_, _)
RunScan(s, w) ==
    LET Step(st, wd, stop) ==
            CASE st.pc = "base" -> StepBase(st, wd, stop)
              [] st.pc = "dir"  -> StepDir(st, wd, stop)
              [] st.pc = "file" -> StepFile(st, wd, stop)
              [] OTHER          -> st
    IN
    IF s.pc \in ScanEnded THEN s ELSE RunScan(Step(s, w, FALSE), w)

InitScan ==
    /\ world \in Worlds
    /\ stop_flag \in BOOLEAN
    /\ stop_at_start = stop_flag
    /\ scan = InitScanner
    /\ uncancelled = RunScan(InitScanner, world)

ScanBase ==
    /\ scan.pc = "base"
    /\ scan' = StepBase(scan, world, stop_flag)
    /\ UNCHANGED <<world, stop_flag, stop_at_start, uncancelled>>
    /\ UNCHANGED <<cleanVars, aiVars, advVars, uiVars, clsVars>>

ScanDir ==
    /\ scan.pc = "dir"
    /\ scan' = StepDir(scan, world, stop_flag)
    /\ UNCHANGED <<world, stop_flag, stop_at_start, uncancelled>>
    /\ UNCHANGED <<cleanVars, aiVars, advVars, uiVars, clsVars>>

ScanFile ==
    /\ scan.pc = "file"
    /\ scan' = StepFile(scan, world, stop_flag)
    /\ UNCHANGED <<world, stop_flag, stop_at_start, uncancelled>>
    /\ UNCHANGED <<cleanVars, aiVars, advVars, uiVars, clsVars>>

\* MainWindow.stop_scan, from the interactive thread while the scan runs
StopScan ==
    /\ scan.pc \in ScanRunning
    /\ ~stop_flag
    /\ stop_flag' = TRUE
    /\ UNCHANGED <<world, stop_at_start, scan, uncancelled>>
    /\ UNCHANGED <<cleanVars, aiVars, advVars, uiVars, clsVars>>

(***************************************************************************)
(* ai_client.py: JSON values                                               *)
(***************************************************************************)
\* A JSON value carries its Python type, which the client probes with
\* isinstance.
JNull    == [t |-> "null", v |-> ""]
JBool(b) == [t |-> "bool", v |-> b]
JNum(n)  == [t |-> "num",  v |-> n]
JStr(x)  == [t |-> "str",  v |-> x]
JList(x) == [t |-> "list", v |-> x]
JDict(f) == [t |-> "dict", v |-> f]
EmptyDict == JDict(<< >>)

IsDict(x) == x.t = "dict"
IsList(x) == x.t = "list"

\* dict.get(key, default)
Get(d, key, default) == IF key \in DOMAIN d.v THEN d.v[key] ELSE default

\* d[key] = value
Put(d, key, value) ==
    JDict([k \in DOMAIN d.v \cup {key} |-> IF k = key THEN value ELSE d.v[k]])

\* str(value)
StrOf(x) ==
    CASE x.t = "str"  -> x.v
      [] x.t = "null" -> "None"
      [] x.t = "bool" -> (IF x.v THEN "True" ELSE "False")
      [] x.t = "num"  -> ToString(x.v)
      [] x.t = "list" -> "[...]"
      [] OTHER        -> "{...}"

\* bool(value)
Truthy(x) ==
    CASE x.t = "str"  -> x.v # ""
      [] x.t = "null" -> FALSE
      [] x.t = "bool" -> x.v
      [] x.t = "num"  -> x.v # 0
      [] x.t = "list" -> x.v # << >>
      [] OTHER        -> DOMAIN x.v # {}

Levels == {"L1", "L2", "L3", "L4", "L5"}

\* int(value or 0) raises on a string that is no number and on a list or dict
IntRaises(x) == Truthy(x) /\ x.t \in {"str", "list", "dict"}

RECURSIVE NormalizeItems(_)
NormalizeItems(raws) ==
    \* lines 184-199: one normalized item
    LET NormalizeItem(raw) ==
            LET lv    == Upper(StrOf(Get(raw, "level", JStr("L3"))))
                level == IF lv \in Levels THEN lv ELSE "L3"
                sav   == Get(raw, "estimated_savings_bytes", JNum(0))
            IN  JDict([ item_id |-> Get(raw, "item_id", JNull),
                        target |-> JStr(StrOf(Get(raw, "target", JStr("")))),
                        file_name |-> JStr(StrOf(Get(raw, "file_name", JStr("")))),
                        level |-> JStr(level),
                        confidence |-> Get(raw, "confidence", JNum(0)),
                        reason |-> JStr(StrOf(Get(raw, "reason", JStr("")))),
                        risk_notes |-> JStr(StrOf(Get(raw, "risk_notes", JStr("")))),
                        recommended_action |-> JStr(StrOf(Get(raw, "recommended_action", JStr("")))),
                        requires_confirmation |->
                            JBool(Truthy(Get(raw, "requires_confirmation", JBool(level \in {"L4", "L5"})))),
                        estimated_savings_bytes |->
                            IF ~Truthy(sav) THEN JNum(0) ELSE IF sav.t = "bool" THEN JNum(1) ELSE sav ])
    IN
    IF raws = << >> THEN << >>
    ELSE IF ~IsDict(Head(raws)) THEN NormalizeItems(Tail(raws))
    ELSE << NormalizeItem(Head(raws)) >> \o NormalizeItems(Tail(raws))

\* _normalize_result raises when int() of a savings estimate raises
NormalizeRaises(data) ==
    /\ IsDict(data)
    /\ IsDict(Get(data, "advice", JNull))
    /\ IsList(Get(Get(data, "advice", JNull), "items", JNull))
    /\ LET raws == Get(Get(data, "advice", JNull), "items", JNull).v
       IN  \E i \in 1..Len(raws) :
               /\ IsDict(raws[i])
               /\ IntRaises(Get(raws[i], "estimated_savings_bytes", JNum(0)))

\* _normalize_result(data), for data on which it does not raise
_normalize_result(data) ==
    \* lines 159-175
    LET NormalizeDiagnosis(advice) ==
            \* dict.setdefault(key, default)
            LET SetDefault(d, key, default) == IF key \in DOMAIN d.v THEN d ELSE Put(d, key, default)
            IN
            LET given  == Get(advice, "diagnosis", JNull)
                legacy == Get(advice, "summary", EmptyDict)
                d0 == IF IsDict(given) THEN given
                      ELSE IF IsDict(legacy)
                      THEN JDict([ summary |-> Get(legacy, "text", JStr("")),
                                   highlights |-> Get(legacy, "highlights", JList(<< >>)),
                                   risks |-> Get(legacy, "key_risks", JList(<< >>)),
                                   actions |-> JList(<< >>) ])
                      ELSE JDict([ summary |-> JStr(""), highlights |-> JList(<< >>),
                                   risks |-> JList(<< >>), actions |-> JList(<< >>) ])
            IN  SetDefault(SetDefault(SetDefault(SetDefault(d0, "summary", JStr("")),
                    "highlights", JList(<< >>)), "risks", JList(<< >>)), "actions", JList(<< >>))
    IN
    \* lines 207-210: group the normalized items by level
    LET GroupByLevel(items) ==
            JDict([ l \in Levels |->
                      JList(SelectSeq(items, LAMBDA it : it.v["level"].v = l)) ])
    IN
    IF ~IsDict(data)
    THEN JDict([ advice |-> JDict([ diagnosis |-> JDict([summary |-> JStr("")]),
                                    items |-> JList(<< >>),
                                    level_groups |-> EmptyDict ]),
                 report |-> JDict([overview |-> JStr(StrOf(data))]) ])
    ELSE LET advice0 == Get(data, "advice", JNull)
             report0 == Get(data, "report", JNull)
             advice1 == IF IsDict(advice0) THEN advice0 ELSE EmptyDict
             report  == IF IsDict(report0) THEN report0
                        ELSE JDict([overview |-> IF report0 = JNull THEN JStr("") ELSE report0])
             advice2 == Put(advice1, "diagnosis", NormalizeDiagnosis(advice1))
             raws    == IF IsList(Get(advice2, "items", JNull))
                        THEN Get(advice2, "items", JNull).v ELSE << >>
             items   == NormalizeItems(raws)
             advice3 == Put(advice2, "items", JList(items))
             lg0     == Get(advice3, "level_groups", EmptyDict)
             lg1     == IF IsDict(lg0) THEN lg0 ELSE EmptyDict
             lg      == IF Truthy(lg1) THEN lg1 ELSE GroupByLevel(items)
         IN  JDict([ advice |-> Put(advice3, "level_groups", lg), report |-> report ])

(***************************************************************************)
(* ai_client.py: AIClient.request_analysis                                 *)
(***************************************************************************)
MaxAttempts == 3

MaxCalls == 2

\* _payload_hash: sha256 of the canonical JSON text of the payload
_payload_hash(p) == "sha256(" \o p \o ")"

\* What json.loads may return for the content of the model's reply
ReplyCanonical ==
    JDict([ advice |-> JDict([ diagnosis |-> JDict([summary |-> JStr("ok")]),
                               items |-> JList(<< JDict([ item_id |-> JNum(0),
                                                          target |-> JStr("c:\\t\\a.log"),
                                                          level |-> JStr("l1") ]),
                                                  JDict([ item_id |-> JNum(1),
                                                          level |-> JStr("L5"),
                                                          requires_confirmation |-> JBool(FALSE) ]) >>) ]),
            report |-> JDict([overview |-> JStr("report")]) ])

ReplyNoAdvice == JDict([ report |-> JStr("nothing to say") ])

ReplyNotDict == JList(<< JNum(1) >>)

ModelReplies ==
    LET ReplyBadSavings ==
            JDict([ advice |-> JDict([ items |-> JList(<< JDict([ item_id |-> JNum(0),
                                                                  estimated_savings_bytes |-> JStr("lots") ]) >>) ]) ])
    IN
    LET ReplyLegacy ==
            JDict([ advice |-> JDict([ summary |-> JDict([text |-> JStr("old shape")]),
                                       items |-> JList(<< JDict([level |-> JStr("high")]), JStr("noise") >>),
                                       level_groups |-> JDict([L1 |-> JList(<< JDict([level |-> JStr("L1")]) >>)]) ]) ])
    IN          {ReplyCanonical, ReplyLegacy, ReplyNoAdvice, ReplyNotDict, ReplyBadSavings}

\* failures before the "parse" event: requests.post raises,
\* raise_for_status raises, response.json() raises
TransportFailures == {"network_error", "http_status", "invalid_body"}
Event(stage, n) == [stage |-> stage, attempt |-> n]

\* 2 ** k
RECURSIVE Pow2(_)
Pow2(k) == IF k = 0 THEN 1 ELSE 2 * Pow2(k - 1)

\* AIClient.__init__ over a cache file that does not exist yet
InitAI ==
    /\ ai_pc = "idle"
    /\ cache_enabled \in BOOLEAN
    /\ cache = << >>
    /\ cache_file = << >>
    /\ payload = None
    /\ attempt = 0
    /\ last_error = None
    /\ net_calls = 0
    /\ events = << >>
    /\ sleeps = << >>
    /\ ai_result = JNull
    /\ errors_raised = 0
    /\ calls_made = 0
    /\ last_reply = JNull
    /\ cache_before = [ memory |-> << >>, disk |-> << >> ]
    /\ callback_raised = FALSE

\* AIWorker.run constructs a client per request: _load_cache reads the file
NewClient ==
    /\ ai_pc \in {"idle", "returned", "raised"}
    /\ calls_made < MaxCalls
    /\ cache_enabled' \in BOOLEAN
    /\ cache' = cache_file
    /\ ai_pc' = "idle"
    /\ UNCHANGED <<cache_file, payload, attempt, last_error, net_calls, events, sleeps,
                   ai_result, errors_raised, calls_made, last_reply, cache_before,
                   callback_raised>>
    /\ UNCHANGED <<cleanVars, scanVars, advVars, uiVars, clsVars>>

\* the lookup skips the cache_enabled switch
CacheHitIgnoresSwitch(enabled, entries, payload_hash) == payload_hash \in DOMAIN entries

\* line 218: "if self.cache_enabled and payload_hash in self.cache"
CacheHit(enabled, entries, payload_hash) == enabled /\ payload_hash \in DOMAIN entries

\* the callback is called without the try/except around it
_emit_progress_unguarded(callback_raises) == IF callback_raises THEN "raise" ELSE "ok"

\* _emit_progress, lines 117-129: how the emission of an event ends for its
\* caller when the callback raises or returns: "except Exception: pass"
_emit_progress(callback_raises) == "ok"

\* lines 214-249: prepare, hash, cache lookup.  callback_raises: whether the
\* progress callback raises on the events of this step.
RequestAnalysis ==
    LET Payloads == {"payloadA", "payloadB"}
    IN
    /\ ai_pc \in {"idle", "returned", "raised"}
    /\ calls_made < MaxCalls
    /\ \E p \in Payloads, callback_raises \in BOOLEAN :
        LET payload_hash == _payload_hash(p)
        IN  /\ payload' = p
            /\ callback_raised' = callback_raises
            /\ IF _emit_progress(callback_raises) = "raise"
               THEN \* the exception leaves request_analysis at the first event
                    /\ events' = << Event("prepare", 0) >>
                    /\ ai_result' = JNull
                    /\ ai_pc' = "raised"
                    /\ attempt' = 0
                    /\ errors_raised' = 1
               ELSE IF CacheHit(cache_enabled, cache, payload_hash)
               THEN /\ events' = << Event("prepare", 0), Event("cache_hit", 0) >>
                    /\ ai_result' = _normalize_result(cache[payload_hash])
                    /\ ai_pc' = "returned"
                    /\ attempt' = 0
                    /\ errors_raised' = 0
               ELSE /\ events' = << Event("prepare", 0), Event("cache_miss", 0) >>
                    /\ ai_result' = JNull
                    /\ ai_pc' = "attempt"
                    /\ attempt' = 1
                    /\ errors_raised' = 0
    /\ calls_made' = calls_made + 1
    /\ net_calls' = 0
    /\ sleeps' = << >>
    /\ last_error' = None
    /\ last_reply' = JNull
    /\ cache_before' = [ memory |-> cache, disk |-> cache_file ]
    /\ UNCHANGED <<cache_enabled, cache, cache_file>>
    /\ UNCHANGED <<cleanVars, scanVars, advVars, uiVars, clsVars>>

\* the loop runs one attempt more than range(1, 4) allows
MoreAttemptsMutant(n) == n <= MaxAttempts

\* "for attempt in range(1, 4)": is there another iteration after attempt n
MoreAttempts(n) == n < MaxAttempts

\* lines 251-280: one iteration of the retry loop, and what follows the
\* loop when it was the last.  save_ok: whether writing the cache file works;
\* callback_raises: whether the progress callback raises on the events of
\* this iteration.
Attempt ==
    LET AttemptOutcomes ==
            \* failures after the "parse" event
            LET ParseFailures == {"missing_choices", "malformed_json"}
            IN
            [kind : TransportFailures \cup ParseFailures, body : {JNull}]
                \cup [kind : {"reply"}, body : ModelReplies]
    IN
    /\ ai_pc = "attempt"
    /\ \E out \in AttemptOutcomes, save_ok \in BOOLEAN, callback_raises \in BOOLEAN :
        LET payload_hash == _payload_hash(payload)
            parsed  == _normalize_result(out.body)
            reached_parse == out.kind \notin TransportFailures
            normalized == out.kind = "reply" /\ ~NormalizeRaises(out.body)
            success == normalized /\ (cache_enabled => save_ok)
            error   == IF out.kind # "reply" THEN out.kind
                       ELSE IF ~normalized THEN "ValueError" ELSE "cache_write_error"
            evs     == events \o << Event("request", attempt) >>
                         \o (IF reached_parse THEN << Event("parse", attempt) >> ELSE << >>)
        IN  /\ callback_raised' = (callback_raised \/ callback_raises)
            /\ IF _emit_progress(callback_raises) = "raise"
               THEN \* the exception of the "request" event is caught by line 275,
                    \* the one of the "retry" event leaves request_analysis
                    /\ events' = events \o << Event("request", attempt), Event("retry", attempt) >>
                    /\ last_error' = "callback_error"
                    /\ ai_result' = JNull
                    /\ ai_pc' = "raised"
                    /\ errors_raised' = errors_raised + 1
                    /\ UNCHANGED <<net_calls, last_reply, cache, cache_file, attempt, sleeps>>
               ELSE
                   /\ net_calls' = net_calls + 1
                   /\ last_reply' = out.body
                   /\ cache' = IF normalized /\ cache_enabled
                               THEN [h \in DOMAIN cache \cup {payload_hash} |->
                                         IF h = payload_hash THEN parsed ELSE cache[h]]
                               ELSE cache
                   /\ cache_file' = IF success /\ cache_enabled THEN cache' ELSE cache_file
                   /\ IF success
                      THEN /\ events' = evs \o << Event("done", 0) >>
                           /\ ai_result' = parsed
                           /\ ai_pc' = "returned"
                           /\ UNCHANGED <<attempt, last_error, sleeps, errors_raised>>
                      ELSE /\ last_error' = error
                           /\ sleeps' = Append(sleeps, Pow2(attempt - 1))
                           /\ ai_result' = JNull
                           /\ IF MoreAttempts(attempt)
                              THEN /\ events' = evs \o << Event("retry", attempt) >>
                                   /\ attempt' = attempt + 1
                                   /\ UNCHANGED <<ai_pc, errors_raised>>
                              ELSE /\ events' = evs \o << Event("retry", attempt), Event("failed", 0) >>
                                   /\ ai_pc' = "raised"
                                   /\ errors_raised' = errors_raised + 1
                                   /\ UNCHANGED attempt
    /\ UNCHANGED <<cache_enabled, payload, calls_made, cache_before>>
    /\ UNCHANGED <<cleanVars, scanVars, advVars, uiVars, clsVars>>

(***************************************************************************)
(* ai_local_advisor.py: the Local Advisor and the reconciliation           *)
(***************************************************************************)
LEVEL_ORDER == [ l \in Levels |->
    CASE l = "L1" -> 1 [] l = "L2" -> 2 [] l = "L3" -> 3 [] l = "L4" -> 4 [] OTHER -> 5 ]

\* CATEGORY_POLICY: category -> (level, reason, risk_notes)
CATEGORY_POLICY ==
    [ c \in { "temporary_files", "system_temp_files", "app_runtime_cache",
              "browser_cache_files", "thumbnail_cache_files", "application_log_files",
              "crash_dump_files", "windows_update_cache", "package_manager_cache",
              "archive_files", "disk_image_files", "installer_packages", "large_files",
              "image_raw_files", "video_production_files", "audio_lossless_files",
              "database_files", "virtual_machine_files", "browser_profile_data",
              "chat_media_data", "word_documents", "spreadsheet_documents",
              "presentation_documents", "pdf_documents", "source_code_files",
              "script_files", "executable_binaries", "software_runtime_files",
              "system_core_files", "driver_packages" } |->
        LET level ==
              CASE c \in { "temporary_files", "app_runtime_cache", "browser_cache_files",
                           "thumbnail_cache_files" } -> "L1"
                [] c \in { "system_temp_files", "application_log_files", "crash_dump_files",
                           "windows_update_cache", "package_manager_cache" } -> "L2"
                [] c \in { "archive_files", "disk_image_files", "installer_packages",
                           "large_files", "audio_lossless_files" } -> "L3"
                [] c \in { "virtual_machine_files", "software_runtime_files",
                           "system_core_files", "driver_packages" } -> "L5"
                [] OTHER -> "L4"
        IN  [ level |-> level,
              reason |-> "#policy " \o c,
              risk_notes |-> "#risk " \o level ] ]

\* _level_up(level)
_level_up(level) ==
    LET LevelName(order) == "L" \o ToString(order)
    IN
    LET order == IF level \in DOMAIN LEVEL_ORDER THEN LEVEL_ORDER[level] ELSE 3
    IN  LevelName(IF order + 1 < 5 THEN order + 1 ELSE 5)

\* _contains_cjk(text), for a str
_contains_cjk(text) ==
    \* Texts: the program's natural-language strings are Chinese.  The model
    \* writes them in ASCII and writes every CJK character as "#".
    LET CJKChars == {"#"}
    IN                 \E i \in 1..Len(text) : SubSeq(text, i, i) \in CJKChars

\* _prefer_cn_text(current_value, remote_value): current is a str of the
\* local result, remote a JSON value
_prefer_cn_text(current_value, remote_value) ==
    LET remote_text == IF Truthy(remote_value) THEN StrOf(remote_value) ELSE ""
    IN  IF _contains_cjk(remote_text) THEN remote_text ELSE current_value

\* _prefer_cn_list(current_value, remote_value)
_prefer_cn_list(current_value, remote_value) ==
    IF ~IsList(remote_value) THEN current_value
    ELSE LET kept == SelectSeq(remote_value.v, LAMBDA x : x # JNull)
             remote_list == [ i \in 1..Len(kept) |-> StrOf(kept[i]) ]
         IN  IF \E i \in 1..Len(remote_list) : _contains_cjk(remote_list[i])
             THEN remote_list ELSE current_value

\* _obj_has_cjk(value)
RECURSIVE _obj_has_cjk(_)
_obj_has_cjk(value) ==
    CASE value.t = "str"  -> _contains_cjk(value.v)
      [] value.t = "list" -> \E i \in 1..Len(value.v) : _obj_has_cjk(value.v[i])
      [] value.t = "dict" -> \E k \in DOMAIN value.v : _obj_has_cjk(value.v[k])
      [] OTHER -> FALSE

\* lines 163-164: "if item.is_recent and LEVEL_ORDER[level] <= 2"
RecentRaise(item, level) ==
    IF item.is_recent /\ LEVEL_ORDER[level] <= 2 THEN _level_up(level) ELSE level

\* line 167: path_lower.startswith("c:\\windows\\") and "temp" not in path_lower
UnderWindows(path_lower) ==
    StartsWith(path_lower, "c:\\windows\\") /\ ~Contains(path_lower, "temp")

\* lines 145-170: the final level with its reason and risk notes
FinalLevel(item) ==
    LET policy == IF item.category \in DOMAIN CATEGORY_POLICY
                  THEN CATEGORY_POLICY[item.category]
                  ELSE [ level |-> "L3", reason |-> "#needs manual check",
                         risk_notes |-> "#risk L3" ]
        p1 == IF item.is_forbidden
              THEN [ level |-> "L5", reason |-> "#protected path", risk_notes |-> "#risk L5" ]
              ELSE policy
        l2 == IF item.rule_risk = "medium" /\ p1.level = "L1" THEN "L2" ELSE p1.level
        l3 == IF item.rule_risk = "forbidden" THEN "L5" ELSE l2
        l4 == IF item.rule_risk = "suggest" /\ LEVEL_ORDER[l3] < 3 THEN "L3" ELSE l3
        l5 == IF item.is_suggestion_only /\ LEVEL_ORDER[l4] < 3 THEN "L3" ELSE l4
        l6 == RecentRaise(item, l5)
    IN  IF UnderWindows(Lower(item.path)) /\ LEVEL_ORDER[l6] < 5
        THEN [ level |-> "L5", reason |-> "#windows system directory file",
               risk_notes |-> "#risk L5" ]
        ELSE [ level |-> l6, reason |-> p1.reason, risk_notes |-> p1.risk_notes ]

\* confirmation asked for L5 only
RequiresConfirmationL5Only(level) == level = "L5"

\* line 198: level in {"L4", "L5"}
RequiresConfirmation(level) == level \in {"L4", "L5"}

\* _build_item_advice(item, item_id)
_build_item_advice(item, item_id) ==
    \* lines 183-187; confidences are in hundredths
    LET BaseConfidence(it, level) ==
            LET Max(a, b) == IF a >= b THEN a ELSE b
            IN
            LET c0 == CASE level = "L1" -> 95 [] level = "L2" -> 88 [] level = "L3" -> 78
                        [] level = "L4" -> 68 [] level = "L5" -> 96 [] OTHER -> 75
                c1 == IF it.is_recent THEN Max(55, c0 - 10) ELSE c0
            IN  IF it.rule_risk = "suggest" THEN Max(50, c1 - 8) ELSE c1
    IN
    \* lines 172-181
    LET ActionFor(level) ==
            CASE level = "L1" -> "#clean directly"
              [] level = "L2" -> "#close the software, then clean"
              [] level = "L3" -> "#back up or confirm before cleaning"
              [] level = "L4" -> "#clean only after manual confirmation"
              [] OTHER        -> "#keep, no automatic cleanup"
    IN
    LET final == FinalLevel(item)
    IN  [ item_id |-> item_id,
          target |-> item.path,
          file_name |-> PathName(WinPath(item.path)),
          level |-> final.level,
          confidence |-> BaseConfidence(item, final.level),
          reason |-> final.reason,
          risk_notes |-> final.risk_notes,
          recommended_action |-> ActionFor(final.level),
          requires_confirmation |-> RequiresConfirmation(final.level),
          estimated_savings_bytes |-> item.size_bytes ]

\* _build_level_groups(items): levels of local records are upper-case L1..L5
_build_level_groups(items) ==
    [ l \in Levels |-> SelectSeq(items, LAMBDA it : Upper(it.level) = l) ]

\* list.sort is stable: a record goes behind the records whose key is not larger
RECURSIVE InsertSorted(_, _)
InsertSorted(sorted, x) ==
    \* line 257: sort key (level order, -estimated_savings_bytes)
    LET SortKeyLE(a, b) ==
            \/ LEVEL_ORDER[a.level] < LEVEL_ORDER[b.level]
            \/ /\ LEVEL_ORDER[a.level] = LEVEL_ORDER[b.level]
               /\ a.estimated_savings_bytes >= b.estimated_savings_bytes
    IN
    IF sorted = << >> THEN << x >>
    ELSE IF SortKeyLE(Head(sorted), x)
         THEN << Head(sorted) >> \o InsertSorted(Tail(sorted), x)
         ELSE << x >> \o sorted

RECURSIVE SortAdvice(_)
SortAdvice(items) ==
    IF items = << >> THEN << >>
    ELSE InsertSorted(SortAdvice(SubSeq(items, 1, Len(items) - 1)), items[Len(items)])

RECURSIVE SumSavings(_)
SumSavings(items) ==
    IF items = << >> THEN 0
    ELSE (IF Head(items).level \in {"L1", "L2", "L3"}
          THEN Head(items).estimated_savings_bytes ELSE 0) + SumSavings(Tail(items))

LevelCounts(items) ==
    [ l \in Levels |-> Cardinality({ i \in 1..Len(items) : Upper(items[i].level) = l }) ]

\* _build_summary_and_diagnosis(items, stats) for stats without a category
\* breakdown (highlights stay empty); byte counts are written unformatted
_build_summary_and_diagnosis(items) ==
    LET counts == LevelCounts(items)
    IN  [ estimated_savings_bytes |-> SumSavings(items),
          level_counts |-> counts,
          diagnosis |->
            [ summary |-> "#found " \o ToString(Len(items)) \o " items, frees "
                            \o ToString(SumSavings(items)) \o " bytes, L4-L5: "
                            \o ToString(counts["L4"] + counts["L5"]),
              highlights |-> << >>,
              risks |-> << "#L4/L5 touch system, documents, databases", "#recent files are raised" >>,
              actions |-> << "#clean L1 first", "#L3 in small batches", "#L4/L5 manual only" >> ] ]

\* enumerate that loses the last item
EnumerateDropsLast(items) ==
    [ i \in 1..(Len(items) - 1) |-> [ idx |-> i - 1, item |-> items[i] ] ]

\* enumerate(items)
Enumerate(items) == [ i \in 1..Len(items) |-> [ idx |-> i - 1, item |-> items[i] ] ]

\* build_local_ai_result(items, stats)
build_local_ai_result(items) ==
    LET pairs == Enumerate(items)
        advice_items == SortAdvice([ i \in 1..Len(pairs) |->
                                       _build_item_advice(pairs[i].item, pairs[i].idx) ])
        summary_payload == _build_summary_and_diagnosis(advice_items)
    IN  [ advice |->
            [ summary |-> [ estimated_savings_bytes |-> summary_payload.estimated_savings_bytes,
                            level_counts |-> summary_payload.level_counts,
                            key_risks |-> summary_payload.diagnosis.risks ],
              diagnosis |-> summary_payload.diagnosis,
              level_groups |-> _build_level_groups(advice_items),
              items |-> advice_items ],
          report |-> JDict([ overview |-> JStr(summary_payload.diagnosis.summary),
                             findings |-> JDict([ quick_wins |-> JList(<< JStr("#L1-L2 are temp files, caches, logs") >>),
                                                  medium_risks |-> JList(<< JStr("#L3 installers, archives") >>),
                                                  do_not_touch |-> JList(<< JStr("#L5 system core") >>) ]),
                             recommendations |-> JDict([ cleanup_strategy |-> JList(<< JStr("#L1 -> L2 -> L3") >>),
                                                         non_delete_options |-> JList(<< JStr("#move large files") >>) ]) ]) ]

\* lines 331-340: index of the local record a remote record addresses, 0: none
FindLocal(local_items, raw) ==
    LET ByPath(recs, target) ==
            LET hits == { i \in 1..Len(recs) :
                            recs[i].target # "" /\ Lower(recs[i].target) = target }
            IN  IF hits = {} THEN 0 ELSE CHOOSE i \in hits : \A j \in hits : j <= i
    IN
    \* lines 312-322: by_item_id and by_path give the last index with the key
    LET ByItemId(recs, id) ==
            LET hits == { i \in 1..Len(recs) : recs[i].item_id = id }
            IN  IF hits = {} THEN 0 ELSE CHOOSE i \in hits : \A j \in hits : j <= i
    IN
    LET IntOf(x) == IF x.t = "bool" THEN (IF x.v THEN 1 ELSE 0) ELSE x.v
    IN
    \* isinstance(value, int): JSON integers and booleans
    LET IsInt(x) == x.t \in {"num", "bool"}
    IN
    LET remote_item_id == Get(raw, "item_id", JNull)
    IN  IF IsInt(remote_item_id) /\ ByItemId(local_items, IntOf(remote_item_id)) # 0
        THEN ByItemId(local_items, IntOf(remote_item_id))
        ELSE ByPath(local_items, Lower(StrOf(Get(raw, "target", JStr("")))))

\* _safe_float(value) in hundredths; the strings of the model are not numbers
_safe_float(value) ==
    CASE value.t = "num"  -> value.v
      [] value.t = "bool" -> (IF value.v THEN 100 ELSE 0)
      [] OTHER -> 0

\* the remote level taken as it comes
MergeItemAnyLevel(current, raw) ==
    LET given == Upper(StrOf(Get(raw, "level", JStr(current.level))))
        level == given
        sav   == Get(raw, "estimated_savings_bytes", JNull)
    IN  [ current EXCEPT
            !.level = level,
            !.confidence = _safe_float(Get(raw, "confidence", JNum(current.confidence))),
            !.reason = _prefer_cn_text(current.reason, Get(raw, "reason", JStr(""))),
            !.risk_notes = _prefer_cn_text(current.risk_notes, Get(raw, "risk_notes", JStr(""))),
            !.recommended_action =
                _prefer_cn_text(current.recommended_action, Get(raw, "recommended_action", JStr(""))),
            !.requires_confirmation =
                Truthy(Get(raw, "requires_confirmation", JBool(level \in {"L4", "L5"}))),
            !.estimated_savings_bytes =
                IF sav = JNull THEN @
                ELSE IF ~Truthy(sav) THEN 0 ELSE IF sav.t = "bool" THEN 1 ELSE sav.v ]

\* lines 342-355: the fields of the matched local record that the remote
\* record overwrites
MergeItem(current, raw) ==
    LET given == Upper(StrOf(Get(raw, "level", JStr(current.level))))
        level == IF given \in DOMAIN LEVEL_ORDER THEN given ELSE Upper(current.level)
        sav   == Get(raw, "estimated_savings_bytes", JNull)
    IN  [ current EXCEPT
            !.level = level,
            !.confidence = _safe_float(Get(raw, "confidence", JNum(current.confidence))),
            !.reason = _prefer_cn_text(current.reason, Get(raw, "reason", JStr(""))),
            !.risk_notes = _prefer_cn_text(current.risk_notes, Get(raw, "risk_notes", JStr(""))),
            !.recommended_action =
                _prefer_cn_text(current.recommended_action, Get(raw, "recommended_action", JStr(""))),
            !.requires_confirmation =
                Truthy(Get(raw, "requires_confirmation", JBool(level \in {"L4", "L5"}))),
            !.estimated_savings_bytes =
                IF sav = JNull THEN @
                ELSE IF ~Truthy(sav) THEN 0 ELSE IF sav.t = "bool" THEN 1 ELSE sav.v ]

\* lines 327-356: the loop over the remote records.  The result carries the
\* local records, the number of applied records and whether int() raised.
RECURSIVE MergeItems(_, _)
MergeItems(acc, remote_items) ==
    \* line 355 raises when int() does
    LET MergeItemRaises(raw) ==
            /\ Get(raw, "estimated_savings_bytes", JNull) # JNull
            /\ IntRaises(Get(raw, "estimated_savings_bytes", JNull))
    IN
    IF remote_items = << >> \/ acc.raised THEN acc
    ELSE LET raw == Head(remote_items)
             local_index == IF IsDict(raw) THEN FindLocal(acc.items, raw) ELSE 0
         IN  IF local_index = 0 THEN MergeItems(acc, Tail(remote_items))
             ELSE IF MergeItemRaises(raw) THEN [ acc EXCEPT !.raised = TRUE ]
             ELSE MergeItems([ acc EXCEPT !.items[local_index] = MergeItem(@, raw),
                                          !.applied = @ + 1 ],
                             Tail(remote_items))

\* merge_remote_into_local(local_result, remote_result, items);
\* [raised |-> TRUE] stands for the exception that leaves the function
merge_remote_into_local(local_result, remote_result) ==
    IF ~IsDict(remote_result) THEN [ raised |-> FALSE, result |-> local_result ]
    ELSE
    LET local_advice  == local_result.advice
        remote_advice == IF IsDict(Get(remote_result, "advice", EmptyDict))
                         THEN Get(remote_result, "advice", EmptyDict) ELSE EmptyDict
        remote_items  == Get(remote_advice, "items", JList(<< >>))
        looped == IF IsList(remote_items)
                  THEN MergeItems([ items |-> local_advice.items, applied |-> 0, raised |-> FALSE ],
                                  remote_items.v)
                  ELSE [ items |-> local_advice.items, applied |-> 0, raised |-> FALSE ]
        remote_diagnosis == Get(remote_advice, "diagnosis", EmptyDict)
        diagnosis ==
            IF IsDict(remote_diagnosis)
            THEN [ summary |-> _prefer_cn_text(local_advice.diagnosis.summary,
                                               Get(remote_diagnosis, "summary", JStr(""))),
                   highlights |-> _prefer_cn_list(local_advice.diagnosis.highlights,
                                                  Get(remote_diagnosis, "highlights", JList(<< >>))),
                   risks |-> _prefer_cn_list(local_advice.diagnosis.risks,
                                             Get(remote_diagnosis, "risks", JList(<< >>))),
                   actions |-> _prefer_cn_list(local_advice.diagnosis.actions,
                                               Get(remote_diagnosis, "actions", JList(<< >>))) ]
            ELSE local_advice.diagnosis
        remote_report == Get(remote_result, "report", EmptyDict)
        report == IF IsDict(remote_report) /\ Truthy(remote_report) /\ _obj_has_cjk(remote_report)
                  THEN remote_report ELSE local_result.report
    IN  IF looped.raised THEN [ raised |-> TRUE, result |-> local_result ]
        ELSE [ raised |-> FALSE,
               result |->
                 [ advice |->
                     [ summary |-> [ estimated_savings_bytes |-> SumSavings(looped.items),
                                     level_counts |-> LevelCounts(looped.items),
                                     key_risks |-> diagnosis.risks,
                                     remote_applied_items |-> looped.applied ],
                       diagnosis |-> diagnosis,
                       level_groups |-> _build_level_groups(looped.items),
                       items |-> looped.items ],
                   report |-> report ] ]

(***************************************************************************)
(* Local Advisor: inputs and operations                                    *)
(***************************************************************************)
MaxAdviceItems == 3

AdviceItem(path, size, category, risk, recent, forbidden, suggestion) ==
    [ path |-> path, size_bytes |-> size, category |-> category, rule_risk |-> risk,
      is_recent |-> recent, is_forbidden |-> forbidden, is_suggestion_only |-> suggestion ]

AdvisorGrid ==
    \* one item of every category, rule risk and flag combination, at a user
    \* path, at system paths and at paths under the Windows root
    LET AdvisorPaths ==
            { "C:\\Users\\u\\AppData\\Local\\Temp\\a.log",
              "C:\\Windows\\System32\\kernel32.dll",
              "C:\\WINDOWS\\Temp\\x.tmp",
              "C:\\Windows\\System32\\template.dll",
              "C:\\Windows\\Contemporary\\notes.txt" }
    IN
    \* categories the scanner assigns that have no policy entry
    LET UnlistedCategories == { "other_files", "game_data" }
    IN
    { AdviceItem(p, 10, c, r, rec, forb, sug) :
        p \in AdvisorPaths,
        c \in DOMAIN CATEGORY_POLICY \cup UnlistedCategories,
        r \in {"low", "medium", "suggest", "forbidden"},
        rec \in BOOLEAN, forb \in BOOLEAN, sug \in BOOLEAN }

\* remote results handed to the reconciliation
RemoteStray ==
    JDict([ advice |-> JDict([
              diagnosis |-> JDict([ summary |-> JStr("#remote summary"),
                                    risks |-> JList(<< JStr("#remote risk"), JNull >>),
                                    actions |-> JList(<< JStr("english only") >>) ]),
              items |-> JList(<<
                  JDict([ item_id |-> JNum(7), target |-> JStr("c:\\nowhere\\x.bin"),
                          level |-> JStr("L1") ]),
                  JDict([ item_id |-> JStr("x"), target |-> JStr("c:\\users\\u\\downloads\\BIG.ISO"),
                          level |-> JStr("l1"), reason |-> JStr("#remote: disposable image"),
                          confidence |-> JStr("high"), estimated_savings_bytes |-> JNum(5) ]),
                  JDict([ item_id |-> JBool(TRUE), level |-> JStr("L9"),
                          requires_confirmation |-> JBool(FALSE),
                          recommended_action |-> JStr("delete it") ]),
                  JStr("noise") >>) ]),
            report |-> JDict([ overview |-> JStr("#remote report") ]) ])

NoResult ==
    [ advice |-> [ items |-> << >>, level_groups |-> [ l \in Levels |-> << >> ] ],
      report |-> JNull ]

\* the (level, recommended_action) pairs the advisor gives over the whole grid
LevelActionsOfGrid ==
    { << _build_item_advice(it, 0).level, _build_item_advice(it, 0).recommended_action >> :
        it \in AdvisorGrid }

IdleAdvisor ==
    /\ adv_pc = "idle"
    /\ adv_items = << >>
    /\ adv_local = NoResult
    /\ adv_remote = JNull
    /\ adv_merged = NoResult
    /\ adv_payload = [ identity |-> << >>, meta |-> [ masked |-> FALSE, total_items |-> 0 ] ]

InitAdvisor ==
    \* items of one scan, for the list-level behaviour
    LET AdvisorPool ==
            { AdviceItem("C:\\Users\\u\\AppData\\Local\\Temp\\a.log", 10, "temporary_files", "low", FALSE, FALSE, FALSE),
              AdviceItem("C:\\Users\\u\\Downloads\\big.iso", 600, "disk_image_files", "suggest", FALSE, FALSE, TRUE),
              AdviceItem("C:\\Users\\u\\Documents\\notes.docx", 20, "word_documents", "low", TRUE, FALSE, FALSE),
              AdviceItem("C:\\Users\\u\\AppData\\Local\\Temp\\b.tmp", 40, "temporary_files", "medium", TRUE, FALSE, FALSE) }
    IN
    /\ adv_pc = "start"
    /\ adv_items \in { << it >> : it \in AdvisorGrid } \cup SeqsUpTo(AdvisorPool, MaxAdviceItems)
    /\ adv_local = NoResult
    /\ adv_remote = JNull
    /\ adv_merged = NoResult
    /\ adv_payload = [ identity |-> << >>, meta |-> [ masked |-> FALSE, total_items |-> 0 ] ]

\* PayloadBuilder._mask_path(path): the last three components of the path
\* behind "***" and in front of a digest of the whole text.  The digest
\* stands for the first ten hex digits of the SHA-256 value: a text that
\* differs for the texts of the model that differ in length or in case.
_mask_path(path, mask_paths) ==
    \* Path(path).parts[-3:] of a path with three components below the drive
    LET tail == PathName(PathParent(PathParent(path))) \o "\\" \o PathName(PathParent(path))
                    \o "\\" \o PathName(path)
        hashed == ToString(Len(path)) \o "-"
                    \o ToString(Cardinality({ i \in 1..Len(path) :
                                                SubSeq(path, i, i) \in DOMAIN LowerMap }))
    IN  IF ~mask_paths THEN path ELSE "***\\" \o tail \o "#" \o hashed

\* PayloadBuilder.build(items, stats_summary, user_intent): the identity list
\* and the meta data.  sorted(..., reverse=True) keeps items of one size in
\* their order; the items of the model have no timestamps.  _auto_trim
\* leaves a payload of fewer than fifty items alone.
build(items, mask_paths, max_items) ==
    LET n == Len(items)
        Rank(i) == 1 + Cardinality({ j \in 1..n :
                        \/ items[j].size_bytes > items[i].size_bytes
                        \/ items[j].size_bytes = items[i].size_bytes /\ j < i })
        items_sorted == [ k \in 1..n |-> items[CHOOSE i \in 1..n : Rank(i) = k] ]
        kept == SubSeq(items_sorted, 1, IF max_items < n THEN max_items ELSE n)
    IN  [ identity |->
            [ k \in 1..Len(kept) |->
                [ path |-> _mask_path(kept[k].path, mask_paths),
                  normalized_path |-> _mask_path(Lower(kept[k].path), mask_paths),
                  category |-> kept[k].category,
                  ext |-> Lower(Suffix(PathName(kept[k].path))),
                  size |-> kept[k].size_bytes,
                  risk_context |-> [ rule_risk |-> kept[k].rule_risk,
                                     is_suggestion_only |-> kept[k].is_suggestion_only ] ] ],
          meta |-> [ masked |-> mask_paths, total_items |-> n ] ]

\* start_ai, lines 498-505: builder = PayloadBuilder(mask_paths, max(1, len(items)));
\* payload = builder.build(self.items, self.stats, user_intent)
BuildPayload ==
    /\ adv_pc = "start"
    /\ \E mask_paths \in BOOLEAN :
          adv_payload' = build(adv_items, mask_paths,
                               IF Len(adv_items) > 1 THEN Len(adv_items) ELSE 1)
    /\ adv_pc' = "payload"
    /\ UNCHANGED <<adv_items, adv_local, adv_remote, adv_merged>>
    /\ UNCHANGED <<cleanVars, scanVars, aiVars, uiVars, clsVars>>

\* local = build_local_ai_result(self.items, self.stats)
BuildLocal ==
    /\ adv_pc = "start"
    /\ adv_local' = build_local_ai_result(adv_items)
    /\ adv_pc' = "local"
    /\ UNCHANGED <<adv_items, adv_remote, adv_merged, adv_payload>>
    /\ UNCHANGED <<cleanVars, scanVars, aiVars, uiVars, clsVars>>

\* merged = merge_remote_into_local(local, result, self.items)
MergeRemote ==
    LET AdvisorRemotes ==
            LET RemoteBadSavings ==
                    JDict([ advice |-> JDict([ items |-> JList(<<
                              JDict([ item_id |-> JNum(0), level |-> JStr("L2"),
                                      estimated_savings_bytes |-> JStr("lots") ]) >>) ]) ])
            IN
            { _normalize_result(r) : r \in { x \in ModelReplies : ~NormalizeRaises(x) } }
                \cup { ReplyNotDict, RemoteStray, RemoteBadSavings }
    IN
    /\ adv_pc = "local"
    /\ \E remote \in AdvisorRemotes :
        \E out \in { merge_remote_into_local(adv_local, remote) } :
            /\ adv_remote' = remote
            /\ IF out.raised
               THEN adv_pc' = "merge_raised" /\ UNCHANGED adv_merged
               ELSE adv_pc' = "merged" /\ adv_merged' = out.result
    /\ UNCHANGED <<adv_items, adv_local, adv_payload>>
    /\ UNCHANGED <<cleanVars, scanVars, aiVars, uiVars, clsVars>>

(***************************************************************************)
(* ui/main_window.py: the orchestrator and its worker threads              *)
(***************************************************************************)
\* Handlers run one at a time on the GUI thread: each is one action.  A
\* worker thread that is done emits one signal, which is queued for the GUI
\* thread and delivered in order.
MaxCleanWorkers == 2

\* ScanResult.items a scan may deliver
UIScanResults ==
    \* ScanItem as the window keeps it: the scanner's fields and the ai_* fields
    \* with their dataclass defaults
    LET UIItem(item) ==
            [ path |-> item.path, size_bytes |-> item.size_bytes, category |-> item.category,
              rule_risk |-> item.rule_risk, is_recent |-> item.is_recent,
              is_forbidden |-> item.is_forbidden, is_suggestion_only |-> item.is_suggestion_only,
              ai_level |-> "L3", ai_reason |-> "", recommended_action |-> "", ai_risk_notes |-> "",
              ai_confidence |-> 0, ai_requires_confirmation |-> FALSE ]
    IN
    LET a == UIItem(AdviceItem("C:\\Users\\u\\AppData\\Local\\Temp\\a.log", 10, "temporary_files", "low", FALSE, FALSE, FALSE))
        b == UIItem(AdviceItem("C:\\Users\\u\\AppData\\Local\\Temp\\b.tmp", 40, "temporary_files", "medium", TRUE, FALSE, FALSE))
        c == UIItem(AdviceItem("C:\\Users\\u\\AppData\\Local\\CrashDumps\\app.dmp", 20, "crash_dump_files", "low", FALSE, FALSE, FALSE))
    IN  { << a >>, << c, a, b >> }

\* results AIWorker.run may emit with "finished": request_analysis returns
\* the normalized form of a reply
UIRemoteResults ==
    { _normalize_result(ReplyCanonical), _normalize_result(ReplyNoAdvice) }

Signal(name, result) == [ name |-> name, result |-> result ]

\* _apply_ai_to_items: the ai_* fields of every item that has an advice
\* record, found by item_id first and by lower-cased path second
_apply_ai_to_items(items, advice) ==
    LET advice_items == advice.items
        ById(idx) ==
            LET hits == { k \in 1..Len(advice_items) : advice_items[k].item_id = idx }
            IN  IF hits = {} THEN 0 ELSE CHOOSE k \in hits : \A j \in hits : j <= k
        ByPathLower(p) ==
            LET hits == { k \in 1..Len(advice_items) : Lower(advice_items[k].target) = p }
            IN  IF hits = {} THEN 0 ELSE CHOOSE k \in hits : \A j \in hits : j <= k
        Found(i) == IF ById(i - 1) # 0 THEN ById(i - 1) ELSE ByPathLower(Lower(items[i].path))
    IN  [ i \in 1..Len(items) |->
            IF Found(i) = 0 THEN items[i]
            ELSE LET rec == advice_items[Found(i)]
                 IN  [ items[i] EXCEPT
                         !.ai_level = rec.level,
                         !.ai_reason = rec.reason,
                         !.recommended_action = rec.recommended_action,
                         !.ai_risk_notes = rec.risk_notes,
                         !.ai_confidence = rec.confidence,
                         !.ai_requires_confirmation = rec.requires_confirmation ] ]

\* worker threads of a kind that run or whose signal waits for its handler
InFlight(kind) ==
    running[kind] + Cardinality({ i \in 1..Len(signals) :
                                    StartsWith(signals[i].name, kind \o "_") })

UIEvent(handler, verdict) == [ handler |-> handler, verdict |-> verdict ]

IdleUI ==
    /\ scan_in_progress = FALSE
    /\ ai_in_progress = FALSE
    /\ running = [ scan |-> 0, ai |-> 0, clean |-> 0 ]
    /\ signals = << >>
    /\ ui_items = << >>
    /\ ai_advice = NoResult.advice
    /\ settings = [ api_key |-> FALSE ]
    /\ last_step = UIEvent("__init__", "ok")
    /\ payload_items = << >>
    /\ stop_history = "none"

\* MainWindow.__init__, lines 115-140, with the settings file as it was saved
InitUI ==
    /\ scan_in_progress = FALSE
    /\ ai_in_progress = FALSE
    /\ running = [ scan |-> 0, ai |-> 0, clean |-> 0 ]
    /\ signals = << >>
    /\ ui_items = << >>
    /\ ai_advice = NoResult.advice
    /\ settings \in [ api_key : BOOLEAN ]
    /\ last_step = UIEvent("__init__", "ok")
    /\ payload_items = << >>
    /\ stop_history = "none"

\* the in-progress test is missing
InProgressIgnored(in_progress) == FALSE

\* lines 327-329 and 491-493: "if self.<kind>_in_progress: ... return"
InProgressRejects(in_progress) == in_progress

\* the flag is left as it is
KeepStopFlag == UNCHANGED stop_flag

\* line 335: self.stop_flag["stop"] = False
ResetStopFlag == stop_flag' = FALSE

\* start_scan
start_scan ==
    /\ IF InProgressRejects(scan_in_progress)
       THEN /\ last_step' = UIEvent("start_scan", "rejected")
            /\ UNCHANGED <<scan_in_progress, running, stop_flag, stop_history>>
       ELSE /\ scan_in_progress' = TRUE
            /\ ResetStopFlag
            /\ running' = [ running EXCEPT !.scan = @ + 1 ]
            /\ stop_history' = IF stop_history = "during" THEN "before" ELSE stop_history
            /\ last_step' = UIEvent("start_scan", "started")
    /\ UNCHANGED <<ai_in_progress, signals, ui_items, ai_advice, settings, payload_items>>
    /\ UNCHANGED <<world, stop_at_start, scan, uncancelled>>
    /\ UNCHANGED <<cleanVars, aiVars, advVars, clsVars>>

\* stop_scan, lines 356-357: the flag the running Scanner polls is set
stop_scan ==
    /\ stop_flag' = TRUE
    /\ stop_history' = IF running.scan > 0 THEN "during" ELSE "before"
    /\ last_step' = UIEvent("stop_scan", "set")
    /\ UNCHANGED <<scan_in_progress, ai_in_progress, running, signals, ui_items, ai_advice,
                   settings, payload_items>>
    /\ UNCHANGED <<world, stop_at_start, scan, uncancelled>>
    /\ UNCHANGED <<cleanVars, aiVars, advVars, clsVars>>

\* ScanWorker.run: scan() returns a result or raises; one signal is emitted.
\* The step is the rest of the scan from its next poll of the stop flag on:
\* with the flag set, _is_stopped() ends the scan with the items found so
\* far (scanner.py lines 163-167), a prefix of what the scan would deliver.
ScanWorkerRun ==
    /\ running.scan > 0
    /\ running' = [ running EXCEPT !.scan = @ - 1 ]
    /\ IF stop_flag
       THEN /\ \E r \in UIScanResults, k \in 0..2 :
                  signals' = Append(signals, Signal("scan_finished",
                                        SubSeq(r, 1, IF k < Len(r) THEN k ELSE Len(r))))
            /\ last_step' = UIEvent("ScanWorker.run", "stopped")
       ELSE /\ \E sig \in { Signal("scan_finished", r) : r \in UIScanResults }
                            \cup { Signal("scan_error", << >>) } :
                  signals' = Append(signals, sig)
            /\ last_step' = UIEvent("ScanWorker.run", "emitted")
    /\ UNCHANGED <<scan_in_progress, ai_in_progress, ui_items, ai_advice, settings>>
    /\ UNCHANGED <<cleanVars, scanVars, aiVars, advVars, clsVars>>
    /\ UNCHANGED <<payload_items, stop_history>>

\* on_scan_finished(result); the finally block clears the flag whether or
\* not writing the scan cache and the statistics succeeded
on_scan_finished ==
    /\ signals # << >>
    /\ Head(signals).name = "scan_finished"
    /\ signals' = Tail(signals)
    /\ ui_items' = Head(signals).result
    /\ scan_in_progress' = FALSE
    /\ last_step' = UIEvent("on_scan_finished", "ok")
    /\ UNCHANGED <<ai_in_progress, running, ai_advice, settings>>
    /\ UNCHANGED <<cleanVars, scanVars, aiVars, advVars, clsVars>>
    /\ UNCHANGED <<payload_items, stop_history>>

\* on_scan_error(message)
on_scan_error ==
    /\ signals # << >>
    /\ Head(signals).name = "scan_error"
    /\ signals' = Tail(signals)
    /\ scan_in_progress' = FALSE
    /\ last_step' = UIEvent("on_scan_error", "error_logged")
    /\ UNCHANGED <<ai_in_progress, running, ui_items, ai_advice, settings>>
    /\ UNCHANGED <<cleanVars, scanVars, aiVars, advVars, clsVars>>
    /\ UNCHANGED <<payload_items, stop_history>>

\* the advice is installed but not applied to the items
InstallLocalAdviceOnly ==
    \E local \in { build_local_ai_result(ui_items) } :
        /\ ai_advice' = local.advice
        /\ UNCHANGED ui_items

\* lines 508-518 and 545-553: install the Local Advisor's result
InstallLocal ==
    \E local \in { build_local_ai_result(ui_items) } :
        /\ ai_advice' = local.advice
        /\ ui_items' = _apply_ai_to_items(ui_items, local.advice)

\* start_ai
start_ai ==
    /\ IF InProgressRejects(ai_in_progress)
       THEN /\ last_step' = UIEvent("start_ai", "rejected")
            /\ UNCHANGED <<ai_in_progress, running, ui_items, ai_advice, payload_items>>
       ELSE IF ui_items = << >>
       THEN /\ last_step' = UIEvent("start_ai", "no_items")
            /\ UNCHANGED <<ai_in_progress, running, ui_items, ai_advice, payload_items>>
       ELSE IF ~settings.api_key
       THEN /\ InstallLocal
            /\ last_step' = UIEvent("start_ai", "local")
            /\ UNCHANGED <<ai_in_progress, running, payload_items>>
       ELSE \* lines 505 and 526: the payload built from self.items goes to the worker
            /\ ai_in_progress' = TRUE
            /\ payload_items' = [ i \in 1..Len(ui_items) |-> ui_items[i].path ]
            /\ running' = [ running EXCEPT !.ai = @ + 1 ]
            /\ last_step' = UIEvent("start_ai", "started")
            /\ UNCHANGED <<ui_items, ai_advice>>
    /\ UNCHANGED <<scan_in_progress, signals, settings, stop_history>>
    /\ UNCHANGED <<cleanVars, scanVars, aiVars, advVars, clsVars>>

\* AIWorker.run, the only place that talks to the network: request_analysis
\* returns a normalized result or raises; one signal is emitted
AIWorkerRun ==
    /\ running.ai > 0
    /\ running' = [ running EXCEPT !.ai = @ - 1 ]
    /\ \E sig \in { Signal("ai_finished", r) : r \in UIRemoteResults }
                    \cup { Signal("ai_error", << >>) } :
          signals' = Append(signals, sig)
    /\ last_step' = UIEvent("AIWorker.run", "emitted")
    /\ UNCHANGED <<scan_in_progress, ai_in_progress, ui_items, ai_advice, settings>>
    /\ UNCHANGED <<cleanVars, scanVars, aiVars, advVars, clsVars>>
    /\ UNCHANGED <<payload_items, stop_history>>

\* on_ai_error(message)
on_ai_error ==
    /\ signals # << >>
    /\ Head(signals).name = "ai_error"
    /\ signals' = Tail(signals)
    /\ ai_in_progress' = FALSE
    /\ InstallLocal
    /\ last_step' = UIEvent("on_ai_error", "local")
    /\ UNCHANGED <<scan_in_progress, running, settings>>
    /\ UNCHANGED <<cleanVars, scanVars, aiVars, advVars, clsVars>>
    /\ payload_items' = << >>
    /\ UNCHANGED stop_history

\* on_ai_finished(result)
on_ai_finished ==
    /\ signals # << >>
    /\ Head(signals).name = "ai_finished"
    /\ signals' = Tail(signals)
    /\ \E local \in { build_local_ai_result(ui_items) } :
       \E out \in { merge_remote_into_local(local, Head(signals).result) } :
          IF out.raised
          THEN /\ last_step' = UIEvent("on_ai_finished", "error_logged")
               /\ UNCHANGED <<ai_advice, ui_items>>
          ELSE /\ ai_advice' = out.result.advice
               /\ ui_items' = _apply_ai_to_items(ui_items, out.result.advice)
               /\ last_step' = UIEvent("on_ai_finished", "merged")
    /\ ai_in_progress' = FALSE
    /\ UNCHANGED <<scan_in_progress, running, settings>>
    /\ UNCHANGED <<cleanVars, scanVars, aiVars, advVars, clsVars>>
    /\ payload_items' = << >>
    /\ UNCHANGED stop_history

\* _run_cleanup(items): nothing to do for an empty list or a declined
\* confirmation; otherwise a new CleanWorker thread is started
_run_cleanup(handler, items, confirmed) ==
    IF items = << >> THEN last_step' = UIEvent(handler, "returned") /\ UNCHANGED running
    ELSE IF ~confirmed THEN last_step' = UIEvent(handler, "returned") /\ UNCHANGED running
    ELSE /\ running' = [ running EXCEPT !.clean = @ + 1 ]
         /\ last_step' = UIEvent(handler, "started")

\* clean_selected: the checked rows of the table (none, the first, or all)
clean_selected ==
    /\ InFlight("clean") < MaxCleanWorkers
    /\ \E rows \in { {}, {1} \cap (1..Len(ui_items)), 1..Len(ui_items) }, confirmed \in BOOLEAN :
          _run_cleanup("clean_selected",
                       SelectSeq(ui_items, LAMBDA it : \E i \in rows : ui_items[i] = it),
                       confirmed)
    /\ UNCHANGED <<scan_in_progress, ai_in_progress, signals, ui_items, ai_advice, settings>>
    /\ UNCHANGED <<cleanVars, scanVars, aiVars, advVars, clsVars>>
    /\ UNCHANGED <<payload_items, stop_history>>

\* clean_ai(level); allow_l2 is the setting as the settings page last saved it
clean_ai ==
    /\ InFlight("clean") < MaxCleanWorkers
    /\ \E level \in {1, 2}, allow_l2 \in BOOLEAN, confirmed \in BOOLEAN :
          LET allowed_levels == IF level = 1 THEN {"L1"} ELSE {"L1", "L2"}
          IN  IF level > 1 /\ ~allow_l2
              THEN last_step' = UIEvent("clean_ai", "returned") /\ UNCHANGED running
              ELSE _run_cleanup("clean_ai",
                                SelectSeq(ui_items, LAMBDA it : it.ai_level \in allowed_levels),
                                confirmed)
    /\ UNCHANGED <<scan_in_progress, ai_in_progress, signals, ui_items, ai_advice, settings>>
    /\ UNCHANGED <<cleanVars, scanVars, aiVars, advVars, clsVars>>
    /\ UNCHANGED <<payload_items, stop_history>>

\* clean_ai_selected(entries): the checked records of the advice list
clean_ai_selected ==
    /\ InFlight("clean") < MaxCleanWorkers
    /\ \E picked \in { {}, {1} \cap (1..Len(ai_advice.items)), 1..Len(ai_advice.items) }, confirmed \in BOOLEAN :
          LET ids == { ai_advice.items[k].item_id : k \in picked }
              selected == SelectSeq(ui_items,
                                    LAMBDA it : \E i \in 1..Len(ui_items) :
                                                    ui_items[i] = it /\ (i - 1) \in ids)
          IN  IF picked = {} THEN last_step' = UIEvent("clean_ai_selected", "returned")
                                  /\ UNCHANGED running
              ELSE IF selected = << >>
              THEN last_step' = UIEvent("clean_ai_selected", "returned") /\ UNCHANGED running
              ELSE _run_cleanup("clean_ai_selected", selected, confirmed)
    /\ UNCHANGED <<scan_in_progress, ai_in_progress, signals, ui_items, ai_advice, settings>>
    /\ UNCHANGED <<cleanVars, scanVars, aiVars, advVars, clsVars>>
    /\ UNCHANGED <<payload_items, stop_history>>

\* CleanWorker.run: clean() returns or raises; one signal is emitted
CleanWorkerRun ==
    /\ running.clean > 0
    /\ running' = [ running EXCEPT !.clean = @ - 1 ]
    /\ \E name \in {"clean_finished", "clean_error"} :
          signals' = Append(signals, Signal(name, << >>))
    /\ last_step' = UIEvent("CleanWorker.run", "emitted")
    /\ UNCHANGED <<scan_in_progress, ai_in_progress, ui_items, ai_advice, settings>>
    /\ UNCHANGED <<cleanVars, scanVars, aiVars, advVars, clsVars>>
    /\ UNCHANGED <<payload_items, stop_history>>

\* on_clean_finished(result) and on_worker_error(message) for a CleanWorker
on_clean_done ==
    /\ signals # << >>
    /\ Head(signals).name \in {"clean_finished", "clean_error"}
    /\ signals' = Tail(signals)
    /\ last_step' = UIEvent(IF Head(signals).name = "clean_finished"
                           THEN "on_clean_finished" ELSE "on_worker_error", "ok")
    /\ UNCHANGED <<scan_in_progress, ai_in_progress, running, ui_items, ai_advice, settings>>
    /\ UNCHANGED <<cleanVars, scanVars, aiVars, advVars, clsVars>>
    /\ UNCHANGED <<payload_items, stop_history>>

(***************************************************************************)
(* core/scanner.py: Scanner._classify_path                                 *)
(***************************************************************************)
\* The extension tables of lines 15-67 in the order lines 318-374 consult
\* them, each with the category returned for a member
ExtensionTables ==
    << [ name |-> "IMAGE_RAW_EXT", category |-> "image_raw_files",
         exts |-> {".raw", ".cr2", ".cr3", ".nef", ".arw", ".dng", ".orf", ".rw2"} ],
       [ name |-> "IMAGE_VECTOR_EXT", category |-> "image_vector_files",
         exts |-> {".svg", ".eps", ".ai"} ],
       [ name |-> "IMAGE_RASTER_EXT", category |-> "image_raster_files",
         exts |-> {".jpg", ".jpeg", ".png", ".gif", ".bmp", ".webp", ".heic", ".avif", ".tif",
                   ".tiff", ".ico"} ],
       [ name |-> "VIDEO_PRODUCTION_EXT", category |-> "video_production_files",
         exts |-> {".m2ts", ".mts", ".r3d", ".braw", ".dav", ".prores"} ],
       [ name |-> "VIDEO_STANDARD_EXT", category |-> "video_standard_files",
         exts |-> {".mp4", ".mkv", ".avi", ".mov", ".wmv", ".flv", ".webm", ".m4v", ".ts"} ],
       [ name |-> "AUDIO_LOSSLESS_EXT", category |-> "audio_lossless_files",
         exts |-> {".flac", ".wav", ".ape", ".alac", ".aiff"} ],
       [ name |-> "AUDIO_LOSSY_EXT", category |-> "audio_lossy_files",
         exts |-> {".mp3", ".aac", ".ogg", ".m4a", ".wma", ".opus"} ],
       [ name |-> "DOC_SPREADSHEET_EXT", category |-> "spreadsheet_documents",
         exts |-> {".xls", ".xlsx", ".csv", ".tsv", ".ods", ".numbers"} ],
       [ name |-> "DOC_PRESENTATION_EXT", category |-> "presentation_documents",
         exts |-> {".ppt", ".pptx", ".odp", ".key"} ],
       [ name |-> "DOC_WORD_EXT", category |-> "word_documents",
         exts |-> {".doc", ".docx", ".odt", ".wps", ".rtf"} ],
       [ name |-> "DOC_PDF_EXT", category |-> "pdf_documents",
         exts |-> {".pdf"} ],
       [ name |-> "DOC_STRUCTURED_EXT", category |-> "structured_data_documents",
         exts |-> {".json", ".xml", ".yaml", ".yml", ".toml", ".ini", ".conf", ".cfg"} ],
       [ name |-> "DOC_TEXT_EXT", category |-> "document_text_files",
         exts |-> {".txt", ".md", ".markdown"} ],
       [ name |-> "ARCHIVE_EXT", category |-> "archive_files",
         exts |-> {".zip", ".rar", ".7z", ".tar", ".gz", ".bz2", ".xz", ".zst"} ],
       [ name |-> "DISK_IMAGE_EXT", category |-> "disk_image_files",
         exts |-> {".iso", ".img", ".dmg"} ],
       [ name |-> "DATABASE_EXT", category |-> "database_files",
         exts |-> {".db", ".sqlite", ".sqlite3", ".mdb", ".accdb", ".edb", ".db-wal", ".db-shm"} ],
       [ name |-> "VIRTUAL_MACHINE_EXT", category |-> "virtual_machine_files",
         exts |-> {".vhd", ".vhdx", ".vdi", ".vmdk", ".qcow2"} ],
       [ name |-> "SOURCE_CODE_EXT", category |-> "source_code_files",
         exts |-> {".py", ".js", ".ts", ".tsx", ".jsx", ".java", ".go", ".rs", ".c", ".cpp", ".h",
                   ".hpp", ".cs", ".php", ".rb", ".swift", ".kt", ".sql", ".html", ".css",
                   ".scss", ".vue"} ],
       [ name |-> "SCRIPT_EXT", category |-> "script_files",
         exts |-> {".bat", ".cmd", ".ps1", ".sh", ".vbs", ".ahk"} ],
       [ name |-> "INSTALLER_EXT", category |-> "installer_packages",
         exts |-> {".msi", ".msix", ".appx", ".cab", ".pkg"} ],
       [ name |-> "EXECUTABLE_EXT", category |-> "executable_binaries",
         exts |-> {".exe", ".dll", ".sys", ".ocx", ".drv"} ],
       [ name |-> "FONT_EXT", category |-> "font_files",
         exts |-> {".ttf", ".otf", ".woff", ".woff2"} ] >>
\* BROWSER_PATH_KEYWORDS, line 81
BROWSER_PATH_KEYWORDS == {"\\chrome\\", "\\edge\\", "\\firefox\\", "\\browser\\", "\\msedge\\"}

\* _classify_path(path, fallback), lines 285-398
_classify_path(path, fallback) ==
    LET GAME_PATH_KEYWORDS ==
            {"\\steam\\", "\\epic games\\", "\\riot games\\", "\\blizzard\\", "\\battle.net\\",
             "\\minecraft\\", "\\games\\", "\\hoyoverse\\", "\\genshin impact\\"}
        BROWSER_PROFILE_KEYWORDS ==
            {"\\indexeddb\\", "\\local storage\\", "\\service worker\\", "\\session storage\\",
             "\\extension state\\", "\\cache storage\\", "\\cookies\\"}
        CHAT_PATH_KEYWORDS ==
            {"\\wechat\\", "\\tencent files\\", "\\qq\\", "\\ding", "\\feishu\\", "\\discord\\",
             "\\telegram\\", "\\whatsapp\\"}
        PACKAGE_CACHE_KEYWORDS ==
            {"\\pip\\cache\\", "\\npm-cache\\", "\\yarn\\cache\\", "\\nuget\\cache\\"}
        fallback_map ==
            [ system_files |-> "system_core_files", windows_update_cache |-> "windows_update_cache",
              game_data |-> "game_data", temporary_files |-> "temporary_files",
              software_cache |-> "app_runtime_cache", browser_cache |-> "browser_cache_files",
              log_and_dump_files |-> "application_log_files", image_files |-> "image_raster_files",
              video_files |-> "video_standard_files", audio_files |-> "audio_lossy_files",
              document_files |-> "document_text_files", archive_files |-> "archive_files",
              source_code_files |-> "source_code_files", database_files |-> "database_files",
              installer_packages |-> "installer_packages", software_files |-> "software_runtime_files",
              system_cache |-> "windows_update_cache", large_files |-> "large_files",
              other_files |-> "other_files", temp |-> "temporary_files",
              cache |-> "app_runtime_cache", logs |-> "application_log_files" ]
    IN
      LET path_str == Lower(WinPath(path))
          file_name == PathName(path_str)
          ext == Suffix(file_name)
          Has(sub) == Contains(path_str, sub)
          AnyOf(keys) == \E k \in keys : Has(k)
          cachey == Has("cache") \/ Has("code cache") \/ Has("gpucache")
          tables == { t \in 1..Len(ExtensionTables) :
                        \/ ext \in ExtensionTables[t].exts
                        \/ /\ ExtensionTables[t].name = "INSTALLER_EXT"
                           /\ ext = ".exe" /\ Contains(file_name, "setup") }
      IN  IF \/ StartsWith(path_str, "c:\\windows\\") \/ Has("\\system32\\")
             \/ ext \in {".dll", ".sys", ".mui", ".cat"}
          THEN "system_core_files"
          ELSE IF Has("softwaredistribution\\download") THEN "windows_update_cache"
          ELSE IF Has("\\windows\\system32\\driverstore\\") \/ ext \in {".inf", ".pnf"}
          THEN "driver_packages"
          ELSE IF Has("\\windows\\temp\\") THEN "system_temp_files"
          ELSE IF AnyOf(GAME_PATH_KEYWORDS) THEN "game_data"
          ELSE IF AnyOf(CHAT_PATH_KEYWORDS) THEN "chat_media_data"
          ELSE IF Has("appdata\\local\\temp") \/ EndsWith(path_str, ".tmp")
          THEN "temporary_files"
          ELSE IF AnyOf(BROWSER_PATH_KEYWORDS) /\ AnyOf(BROWSER_PROFILE_KEYWORDS)
          THEN "browser_profile_data"
          ELSE IF AnyOf(BROWSER_PATH_KEYWORDS) /\ cachey THEN "browser_cache_files"
          ELSE IF \/ Contains(file_name, "thumbcache")
                  \/ /\ Has("\\microsoft\\windows\\explorer\\")
                     /\ ext \in {".db", ".db-wal", ".db-shm"}
          THEN "thumbnail_cache_files"
          ELSE IF AnyOf(PACKAGE_CACHE_KEYWORDS) THEN "package_manager_cache"
          ELSE IF Has("\\crashdumps\\") \/ ext = ".dmp" THEN "crash_dump_files"
          ELSE IF Has("\\logs\\") \/ ext \in {".log", ".etl"} THEN "application_log_files"
          ELSE IF tables # {}
          THEN ExtensionTables[CHOOSE t \in tables : \A u \in tables : t <= u].category
          ELSE IF Has("\\program files\\") \/ Has("\\program files (x86)\\")
          THEN "software_runtime_files"
          ELSE IF cachey THEN "app_runtime_cache"
          ELSE IF fallback \in DOMAIN fallback_map THEN fallback_map[fallback]
          ELSE IF fallback # "" THEN fallback
          ELSE "other_files"

IdleClassify ==
    /\ cls_pc = "idle"
    /\ cls_path = ""
    /\ cls_fallback = ""
    /\ cls_category = ""

\* a call of _classify_path(path, rule.category) for a file of a scanned tree
InitClassify ==
    LET dirs == { "C:\\Users\\u\\Chrome\\Cache",
                  "C:\\Users\\u\\Chrome\\User Data",
                  "C:\\Users\\u\\Edge\\IndexedDB",
                  "C:\\Users\\u\\AppData\\Local\\Temp\\chrome",
                  "C:\\Users\\u\\App\\Logs",
                  "C:\\Users\\u\\Firefox\\Profiles",
                  "C:\\Users\\u\\Documents",
                  "C:\\Program Files\\App",
                  "C:\\Windows\\Temp" }
        names == { "debug.log", ".log", "index.ts", "a.tmp", "photo.JPG", "setup.exe", "tool.exe",
                   "notes", "thumbcache.db", "trace.etl", "dump.dmp", "a.tar.gz" }
    IN  /\ cls_pc = "start"
        /\ cls_path \in { Join(d, n) : d \in dirs, n \in names }
        /\ cls_fallback \in { "logs", "browser_cache", "cache", "" }
        /\ cls_category = ""

\* the call returns
Classify ==
    /\ cls_pc = "start"
    /\ cls_category' = _classify_path(cls_path, cls_fallback)
    /\ cls_pc' = "done"
    /\ UNCHANGED <<cls_path, cls_fallback>>
    /\ UNCHANGED <<cleanVars, scanVars, aiVars, advVars, uiVars>>

(***************************************************************************)
(* Specifications: one per component, the other components at rest         *)
(***************************************************************************)
IdleClean ==
    /\ clean_pc = "idle"
    /\ dry_run = FALSE
    /\ allow_delete = FALSE
    /\ clean_items = << >>
    /\ clean_idx = 1
    /\ deleted = << >>
    /\ failed = << >>
    /\ skipped = << >>
    /\ disk = << >>
    /\ disk0 = << >>
    /\ ops = << >>

IdleScan ==
    /\ world = [home |-> "", tree |-> << >>, stat_fail |-> << >>]
    /\ stop_flag = FALSE
    /\ stop_at_start = FALSE
    /\ scan = [InitScanner EXCEPT !.pc = "idle"]
    /\ uncancelled = [InitScanner EXCEPT !.pc = "idle"]

IdleAI ==
    /\ InitAI
    /\ cache_enabled = FALSE

NextClean == CleanItem \/ CleanReturn
StartClean == InitClean /\ IdleScan /\ IdleAI /\ IdleAdvisor /\ IdleUI /\ IdleClassify
SpecClean == StartClean /\ [][NextClean]_vars

NextScan == ScanBase \/ ScanDir \/ ScanFile \/ StopScan
StartScan == InitScan /\ IdleClean /\ IdleAI /\ IdleAdvisor /\ IdleUI /\ IdleClassify
SpecScan == StartScan /\ [][NextScan]_vars

NextAI == NewClient \/ RequestAnalysis \/ Attempt
StartAI == InitAI /\ IdleClean /\ IdleScan /\ IdleAdvisor /\ IdleUI /\ IdleClassify
SpecAI == StartAI /\ [][NextAI]_vars

NextAdvisor == BuildPayload \/ BuildLocal \/ MergeRemote
StartAdvisor == InitAdvisor /\ IdleClean /\ IdleScan /\ IdleAI /\ IdleUI /\ IdleClassify
SpecAdvisor == StartAdvisor /\ [][NextAdvisor]_vars

NextUI ==
    \/ start_scan \/ ScanWorkerRun \/ on_scan_finished \/ on_scan_error
    \/ start_ai \/ AIWorkerRun \/ on_ai_finished \/ on_ai_error
    \/ clean_selected \/ clean_ai \/ clean_ai_selected \/ CleanWorkerRun \/ on_clean_done
NextUIStop ==
    \/ start_scan \/ stop_scan \/ ScanWorkerRun \/ on_scan_finished \/ on_scan_error
StartUI == InitUI /\ IdleClean /\ IdleScan /\ IdleAI /\ IdleAdvisor /\ IdleClassify
SpecUI == StartUI /\ [][NextUI]_vars

\* The Qt event loop takes the signal at the head of the queue and runs the
\* slot connected to it: the step every on_* handler above takes first
DeliverSignal ==
    /\ signals # << >>
    /\ signals' = Tail(signals)

\* The scan and advisory flow of the window, without the cleanup commands
\* (they touch neither the items, the advice nor the in-progress flags).
\* The event loop delivers every queued signal and a started thread runs to
\* its end.
NextUIFlow ==
    \/ start_scan \/ ScanWorkerRun \/ on_scan_finished \/ on_scan_error
    \/ start_ai \/ AIWorkerRun \/ on_ai_finished \/ on_ai_error
SpecUIFair ==
    /\ StartUI
    /\ [][NextUIFlow]_vars
    /\ WF_vars(ScanWorkerRun) /\ WF_vars(AIWorkerRun)
    /\ WF_signals(DeliverSignal)

\* the scan commands with the stop button
SpecUIStop == StartUI /\ [][NextUIStop]_vars

StartClassify == InitClassify /\ IdleClean /\ IdleScan /\ IdleAI /\ IdleAdvisor /\ IdleUI
SpecClassify == StartClassify /\ [][Classify]_vars

(***************************************************************************)
(* Cleanup Executor properties (SpecClean)                                 *)
(***************************************************************************)
\* C1: clean never trashes, hard-deletes or reports as deleted an item whose
\* is_forbidden or is_suggestion_only flag is set or whose path is
\* is_forbidden(); every such item that the loop has passed is in skipped
\* with reason forbidden_or_suggestion, whatever dry_run, allow_delete and
\* the item's advisory level are.
C1_RefusedItemsAreSkipped ==
    LET Refused(it) == it.is_forbidden \/ it.is_suggestion_only \/ is_forbidden(it.path)
        passed  == { j \in 1..(clean_idx - 1) : Refused(clean_items[j]) }
    IN  /\ \A j \in 1..Len(clean_items) :
              Refused(clean_items[j]) =>
                  /\ \A i \in 1..Len(deleted) : deleted[i].path # clean_items[j].path
                  /\ \A i \in 1..Len(failed) : failed[i].path # clean_items[j].path
                  /\ \A k \in 1..Len(ops) : ops[k].path # WinPath(clean_items[j].path)
                  /\ Lower(WinPath(clean_items[j].path)) \in DOMAIN disk0
                         => Lower(WinPath(clean_items[j].path)) \in DOMAIN disk
        /\ \A j \in passed :
              \E k \in 1..Len(skipped) :
                  skipped[k] = [path |-> clean_items[j].path, reason |-> "forbidden_or_suggestion"]
        /\ Cardinality(passed)
              = Cardinality({ k \in 1..Len(skipped) : skipped[k].reason = "forbidden_or_suggestion" })

\* a real run with hard delete allowed has met an item refused by each of
\* the three tests and has deleted nothing
C1_Witness ==
    /\ clean_pc = "done"
    /\ ~dry_run
    /\ allow_delete
    /\ Len(skipped) = 3
    /\ \E i, j, k \in 1..Len(clean_items) :
          /\ clean_items[i].is_suggestion_only
          /\ clean_items[j].is_forbidden
          /\ ~clean_items[k].is_forbidden /\ ~clean_items[k].is_suggestion_only
          /\ is_forbidden(clean_items[k].path)
          /\ clean_items[k].ai_level = "L1"

\* C2: every input item is appended to exactly one of deleted, failed,
\* skipped: after the loop has passed n items the three lists hold n entries
\* in all, path by path as many as the input, and at the return their total
\* is the length of the input (0 for the empty input).
C2_PartitionIsExhaustive ==
    LET Count(list, p) == Cardinality({ i \in 1..Len(list) : list[i].path = p })
    IN  /\ Len(deleted) + Len(failed) + Len(skipped) = clean_idx - 1
        /\ clean_pc = "done" => Len(deleted) + Len(failed) + Len(skipped) = Len(clean_items)
        /\ \A j \in 1..Len(clean_items) :
              Count(deleted, clean_items[j].path) + Count(failed, clean_items[j].path)
                  + Count(skipped, clean_items[j].path)
                  = Cardinality({ i \in 1..(clean_idx - 1) : clean_items[i].path = clean_items[j].path })

\* a finished call in which a hard delete succeeded, another failed and an
\* item was skipped
C2_Witness ==
    /\ clean_pc = "done"
    /\ Len(clean_items) = 3
    /\ \E i \in 1..Len(deleted) : "method" \in DOMAIN deleted[i] /\ deleted[i].method = "delete"
    /\ Len(failed) = 1
    /\ Len(skipped) = 1

\* C3: in dry-run mode nothing destructive happens: the existing paths are
\* those that existed at the call, no send2trash/unlink/rmdir is issued,
\* failed is empty, and each passed item that is neither refused nor missing
\* is in deleted with the dry-run marker.
C3_DryRunIsHarmless ==
    dry_run =>
        LET Refused(it) == it.is_forbidden \/ it.is_suggestion_only \/ is_forbidden(it.path)
            live == { j \in 1..(clean_idx - 1) :
                        /\ ~Refused(clean_items[j])
                        /\ Lower(WinPath(clean_items[j].path)) \in DOMAIN disk0 }
        IN  /\ disk = disk0
            /\ ops = << >>
            /\ failed = << >>
            /\ \A i \in 1..Len(deleted) :
                  /\ "dry_run" \in DOMAIN deleted[i]
                  /\ deleted[i].dry_run = TRUE
                  /\ "method" \notin DOMAIN deleted[i]
            /\ Len(deleted) = Cardinality(live)
            /\ \A j \in live :
                  \E i \in 1..Len(deleted) :
                      deleted[i] = [path |-> clean_items[j].path,
                                    bytes |-> clean_items[j].size_bytes, dry_run |-> TRUE]

\* a finished dry run, hard delete allowed, that reported two items as
\* deleted and skipped a missing one
C3_Witness ==
    /\ clean_pc = "done"
    /\ dry_run
    /\ allow_delete
    /\ Len(deleted) = 2
    /\ \E k \in 1..Len(skipped) : skipped[k].reason = "missing"

\* C4: outside dry-run, unlink/rmdir of a path is issued only right after a
\* failed send2trash of that path and only if allow_delete; without
\* allow_delete the failed list is exactly the failed send2trash calls with
\* their errors; with allow_delete it is exactly the failed unlink/rmdir
\* calls with their (second) errors; and the loop goes on after a failure:
\* it returns only when every item was passed.
C4_HardDeleteOnlyAfterSoftFailure ==
    ~dry_run =>
        LET IsHard(c) == c.op \in {"unlink", "rmdir"}
            softFailed == SelectSeq(ops, LAMBDA c : c.op = "send2trash" /\ c.error # None)
            hardFailed == SelectSeq(ops, LAMBDA c : IsHard(c) /\ c.error # None)
            recorded   == IF allow_delete THEN hardFailed ELSE softFailed
        IN  /\ \A k \in 1..Len(ops) :
                  IsHard(ops[k]) =>
                      /\ allow_delete
                      /\ k > 1
                      /\ ops[k - 1] = [op |-> "send2trash", path |-> ops[k].path, error |-> TrashError]
            /\ \A k \in 1..Len(ops) :
                  (allow_delete /\ ops[k].op = "send2trash" /\ ops[k].error # None) =>
                      (k < Len(ops) /\ IsHard(ops[k + 1]))
            /\ Len(failed) = Len(recorded)
            /\ \A i \in 1..Len(failed) :
                  /\ WinPath(failed[i].path) = recorded[i].path
                  /\ failed[i].error = recorded[i].error
                  /\ failed[i].error = IF allow_delete THEN DeleteError ELSE TrashError
            /\ clean_pc = "done" => clean_idx = Len(clean_items) + 1

\* both the reversible and the irreversible delete of the first item failed
\* and a later item was still deleted
C4_Witness ==
    /\ clean_pc = "done"
    /\ ~dry_run
    /\ allow_delete
    /\ Len(ops) >= 3
    /\ ops[1].op = "send2trash" /\ ops[1].error = TrashError
    /\ ops[2].op \in {"unlink", "rmdir"} /\ ops[2].error = DeleteError
    /\ failed # << >>
    /\ deleted # << >>

(***************************************************************************)
(* Scanner properties (SpecScan)                                           *)
(***************************************************************************)
\* C5: at every point of a scan, completed or stopped, no item has a path
\* for which is_forbidden holds; no file of a forbidden directory is
\* examined; and the walk does not descend below a forbidden directory: a
\* directory waiting to be walked is the base itself or has a parent that is
\* not forbidden.
C5_ForbiddenNeverScanned ==
    /\ \A i \in 1..Len(scan.items) : ~is_forbidden(scan.items[i].path)
    /\ scan.pc = "file" => ~is_forbidden(scan.current)
    /\ \A i \in 1..Len(scan.stack) :
          \/ scan.stack[i] = build_rules(world.home)[scan.rule].base_paths[scan.base]
          \/ ~is_forbidden(PathParent(scan.stack[i]))

\* the walk from the drive root has just pruned C:\Program Files, which has
\* a sub-directory, and goes on with C:\Windows
C5_Witness ==
    /\ scan.pc = "dir"
    /\ scan.current = "C:\\Program Files"
    /\ is_forbidden(scan.current)
    /\ world.tree[Lower(scan.current)].dirs # << >>
    /\ scan.stack = << "C:\\Windows" >>
    /\ scan.files_seen > 0

\* C6: at every point of the scan no two items have the same lower-cased
\* path, and the item list only grows at its end, so an item emitted by an
\* earlier rule is never re-emitted and keeps its rule_name and rule_risk.
C6_NoDuplicatePaths ==
    /\ [](\A i, j \in 1..Len(scan.items) :
              i # j => Lower(scan.items[i].path) # Lower(scan.items[j].path))
    /\ [][IsPrefix(scan.items, scan.items')]_vars

\* a.log was emitted by UserTemp as ...\Temp\a.log and then reached again
\* as ...\TEMP\a.log under LogsAndDumps, which matches it; the scan is over
C6_Witness ==
    /\ scan.pc = "completed"
    /\ world.home = "C:\\Users\\u"
    /\ world.stat_fail = << >>
    /\ \E i \in 1..Len(scan.items) :
          /\ scan.items[i].path = "C:\\Users\\u\\AppData\\Local\\Temp\\a.log"
          /\ scan.items[i].rule_name = "UserTemp"
          /\ RuleMatches("C:\\Users\\u\\AppData\\Local\\TEMP\\a.log", build_rules(world.home)[3])
    /\ scan.files_seen > Len(scan.items)

\* C7: once the stop flag is true, the next step of the scan is its return
\* ("stopped") with no further file examined and nothing added; the items
\* of a scan are at every point, so also at its return, a prefix of the items
\* of the uncancelled scan over the same tree; a scan that is not stopped
\* returns exactly those; and a flag that is true when scan starts yields an
\* empty item list.
C7_StopReturnsPrefix ==
    /\ [][(stop_flag /\ scan.pc \in ScanRunning /\ scan' # scan) =>
              /\ scan'.pc = "stopped"
              /\ scan'.files_seen = scan.files_seen
              /\ scan'.items = scan.items
              /\ scan'.skipped = scan.skipped]_vars
    /\ [](IsPrefix(scan.items, uncancelled.items))
    /\ [](scan.pc = "completed" => scan.items = uncancelled.items)
    /\ []((stop_at_start /\ scan.pc \in ScanEnded) => (scan.pc = "stopped" /\ scan.items = << >>))

\* a scan stopped at a file poll, with files of the directory still to
\* come, after it emitted some but not all items of the uncancelled scan
C7_Witness ==
    /\ scan.pc = "stopped"
    /\ ~stop_at_start
    /\ scan.files # << >>
    /\ Len(scan.items) > 0
    /\ Len(scan.items) < Len(uncancelled.items)

\* C8: when stat of a matched file fails, that step adds exactly one entry
\* to skipped and no item and goes on with the next file; no exception
\* leaves scan; and a completed scan has examined as many files as the scan
\* of the same tree in which no stat fails.
C8_StatFailureIsSkipped ==
    /\ [][(/\ scan.pc = "file"
           /\ scan' # scan
           /\ ~stop_flag
           /\ LET path == Join(scan.current, Head(scan.files).name)
              IN  /\ RuleMatches(path, build_rules(world.home)[scan.rule])
                  /\ ~is_forbidden(path)
                  /\ Lower(path) \in DOMAIN world.stat_fail)
          => /\ Len(scan'.skipped) = Len(scan.skipped) + 1
             /\ SubSeq(scan'.skipped, 1, Len(scan.skipped)) = scan.skipped
             /\ scan'.items = scan.items
             /\ scan'.seen_paths = scan.seen_paths
             /\ scan'.files_seen = scan.files_seen + 1
             /\ scan'.pc \in ScanRunning \cup {"completed"}
             /\ scan'.pc = "file" <=> Tail(scan.files) # << >>]_vars
    /\ [](scan.pc # "raised")
    /\ [](scan.pc = "completed" =>
              scan.files_seen = RunScan(InitScanner, [world EXCEPT !.stat_fail = << >>]).files_seen)

\* stat of a.log failed each of the three times a rule matched it; the scan
\* completed and emitted the four other matched files
C8_Witness ==
    /\ scan.pc = "completed"
    /\ DOMAIN world.stat_fail = {"c:\\users\\u\\appdata\\local\\temp\\a.log"}
    /\ Len(scan.skipped) = 3
    /\ Len(scan.items) = 4

\* C9 (as claimed): a completed scan holds, for every non-forbidden file of
\* at least 500 MB under Downloads/Desktop/Documents whose stat works and
\* that no rule emitted, an item with rule_risk "suggest" and
\* is_suggestion_only, and no two items share a lower-cased path.
C9_LargeFilesAreSuggested ==
    scan.pc = "completed" =>
        /\ \A d \in DOMAIN world.tree :
              \A n \in 1..Len(world.tree[d].files) :
                  LET f      == world.tree[d].files[n]
                      path   == Lower(Join(d, f.name))
                      under  == \E t \in 1..3 :
                                   \/ d = Lower(suggestion_targets(world.home)[t])
                                   \/ StartsWith(d, Lower(suggestion_targets(world.home)[t]) \o "\\")
                  IN  (/\ under
                       /\ f.size >= LargeFileThreshold
                       /\ ~is_forbidden(path)
                       /\ path \notin DOMAIN world.stat_fail)
                      => \E i \in 1..Len(scan.items) :
                            /\ Lower(scan.items[i].path) = path
                            /\ \/ scan.items[i].rule_name # "LargeFile"
                               \/ /\ scan.items[i].rule_risk = "suggest"
                                  /\ scan.items[i].is_suggestion_only
        /\ \A i, j \in 1..Len(scan.items) :
              i # j => Lower(scan.items[i].path) # Lower(scan.items[j].path)

(***************************************************************************)
(* Advisory Client properties (SpecAI)                                     *)
(***************************************************************************)
\* C10: after a cache miss request_analysis issues at most 3 network
\* attempts; the attempt that succeeds is the last one, and the call returns
\* the normalized form of its reply; the call raises only after 3 failed
\* attempts, once, and no attempt follows a return or a raise.
C10_AtMostThreeAttempts ==
    /\ [](LET Stage(st) == { i \in 1..Len(events) : events[i].stage = st }
          IN  /\ net_calls <= 3
              /\ net_calls = Cardinality(Stage("request"))
              /\ errors_raised <= 1
              /\ errors_raised = Cardinality(Stage("failed"))
              /\ ai_pc = "attempt" =>
                    /\ net_calls = attempt - 1
                    /\ Cardinality(Stage("retry")) = net_calls
                    /\ errors_raised = 0
              /\ ai_pc = "raised" =>
                    /\ net_calls = 3
                    /\ Cardinality(Stage("retry")) = 3
                    /\ errors_raised = 1
                    /\ ai_result = JNull
              /\ (ai_pc = "returned" /\ net_calls > 0) =>
                    /\ Cardinality(Stage("retry")) = net_calls - 1
                    /\ Cardinality(Stage("done")) = 1
                    /\ errors_raised = 0
                    /\ \E r \in ModelReplies :
                          ~NormalizeRaises(r) /\ ai_result = _normalize_result(r))
    /\ [][(ai_pc \in {"returned", "raised"} /\ calls_made' = calls_made)
             => net_calls' = net_calls /\ errors_raised' = errors_raised]_vars
    /\ [][(ai_pc = "attempt" /\ ai_pc' = "returned")
             => net_calls' = net_calls + 1 /\ net_calls' = attempt]_vars

\* a call whose three attempts failed has raised
C10_Witness ==
    /\ ai_pc = "raised"
    /\ net_calls = 3
    /\ attempt = 3
    /\ last_error # None

C12_SchemaViolationIsFailure ==
    LET Violates(d) ==
            \/ ~IsDict(d)
            \/ ~IsDict(Get(d, "advice", JNull))
            \/ ~IsList(Get(Get(d, "advice", JNull), "items", JNull))
    IN  (net_calls > 0 /\ last_reply # JNull /\ Violates(last_reply)) =>
            /\ ai_pc # "returned"
            /\ _payload_hash(payload) \notin DOMAIN cache
            /\ _payload_hash(payload) \notin DOMAIN cache_file

C15_ConfirmationAndActionByLevel ==
    adv_pc \in {"local", "merged", "merge_raised"} =>
        \A k \in 1..Len(adv_local.advice.items) :
            LET r == adv_local.advice.items[k]
            IN  /\ r.requires_confirmation <=> r.level \in {"L4", "L5"}
                /\ \A pair \in LevelActionsOfGrid :
                      pair[1] = r.level => pair[2] = r.recommended_action

\* two L3 records of different categories and flags next to an L4 record
C15_Witness ==
    /\ adv_pc = "local"
    /\ \E i, j, k \in 1..Len(adv_local.advice.items) :
          LET a == adv_local.advice.items[i]
              b == adv_local.advice.items[j]
              c == adv_local.advice.items[k]
          IN  /\ a.level = "L3" /\ b.level = "L3"
              /\ adv_items[a.item_id + 1].category # adv_items[b.item_id + 1].category
              /\ adv_items[a.item_id + 1].is_recent # adv_items[b.item_id + 1].is_recent
              /\ a.recommended_action = b.recommended_action
              /\ c.level = "L4" /\ c.requires_confirmation

\* C16: a recent item's level is exactly one tier above the level the same
\* item gets when it is not recent, capped at L5.
C16_RecentRaisesOneTier ==
    adv_pc = "local" =>
        \A k \in 1..Len(adv_local.advice.items) :
            LET r    == adv_local.advice.items[k]
                it   == adv_items[r.item_id + 1]
                base == _build_item_advice([ it EXCEPT !.is_recent = FALSE ], r.item_id).level
            IN  it.is_recent =>
                    LEVEL_ORDER[r.level] = (IF LEVEL_ORDER[base] < 5 THEN LEVEL_ORDER[base] + 1 ELSE 5)

\* C17: every record whose target is under c:\windows\ and has no directory
\* named temp on its path has level L5 and requires confirmation.
C17_WindowsPathsForcedToL5 ==
    adv_pc = "local" =>
        \A k \in 1..Len(adv_local.advice.items) :
            LET r == adv_local.advice.items[k]
                path_lower == Lower(r.target)
            IN  (StartsWith(path_lower, "c:\\windows\\") /\ ~Contains(path_lower, "\\temp\\")) =>
                    (r.level = "L5" /\ r.requires_confirmation)

(***************************************************************************)
(* Advice values of the Advisory Client (SpecAI)                           *)
(***************************************************************************)
\* C14: in the result request_analysis returns, the level_groups mapping is
\* the grouping of the items list by level: group Lk holds exactly the
\* records whose level is Lk, and there is no other group.
C14_GroupsMatchItems ==
    ai_pc = "returned" =>
        LET advice == ai_result.v["advice"]
            items  == advice.v["items"].v
            groups == advice.v["level_groups"]
        IN  /\ DOMAIN groups.v \subseteq Levels
            /\ \A l \in Levels :
                  Get(groups, l, JList(<< >>)).v = SelectSeq(items, LAMBDA it : it.v["level"].v = l)

(***************************************************************************)
(* Orchestrator properties (SpecUI, SpecUIFair)                            *)
(***************************************************************************)
\* C18: at most one scan worker and at most one advisory worker is in flight
\* (running, or done with its signal not yet handled); scan_in_progress and
\* ai_in_progress are true exactly while there is one; start_scan during a
\* scan and start_ai during an advisory request are rejected and change
\* nothing: no flag, no worker, no queued signal, no item, no advice.
C18_OneScanOneAdvisoryInFlight ==
    /\ [](/\ InFlight("scan") <= 1
          /\ InFlight("ai") <= 1
          /\ scan_in_progress <=> (InFlight("scan") = 1)
          /\ ai_in_progress <=> (InFlight("ai") = 1))
    /\ [][(scan_in_progress /\ last_step'.handler = "start_scan") =>
             /\ last_step'.verdict = "rejected"
             /\ UNCHANGED <<scan_in_progress, ai_in_progress, running, signals, ui_items,
                            ai_advice, settings>>]_vars
    /\ [][(ai_in_progress /\ last_step'.handler = "start_ai") =>
             /\ last_step'.verdict = "rejected"
             /\ UNCHANGED <<scan_in_progress, ai_in_progress, running, signals, ui_items,
                            ai_advice, settings>>]_vars

\* start_ai was just rejected while a scan and an advisory request are in flight
C18_Witness ==
    /\ last_step = UIEvent("start_ai", "rejected")
    /\ scan_in_progress /\ ai_in_progress
    /\ InFlight("scan") = 1 /\ InFlight("ai") = 1
    /\ running.ai = 1

\* C19: at most one CleanWorker runs at a time.
C19_OneCleanupInFlight == running.clean <= 1

C21_BrowserLogIsLog ==
    LET path_str == Lower(WinPath(cls_path))
    IN  ( /\ cls_pc = "done"
          /\ Suffix(PathName(path_str)) = ".log"
          /\ \E k \in BROWSER_PATH_KEYWORDS : Contains(path_str, k) )
        => cls_category = "application_log_files"

\* C22: the extension tables are pairwise disjoint: the extension of a
\* classified file belongs to at most one of them.
C22_ExtensionTablesDisjoint ==
    LET ext == Suffix(PathName(Lower(WinPath(cls_path))))
    IN  cls_pc = "done" =>
            \A i, j \in 1..Len(ExtensionTables) :
                (ext \in ExtensionTables[i].exts /\ ext \in ExtensionTables[j].exts) => i = j

(***************************************************************************)
(* Reconciliation properties (SpecAdvisor)                                 *)
(***************************************************************************)
\* C23: in the result of merge_remote_into_local, a local record addressed
\* by remote records has the level of the last of them whose level,
\* upper-cased, is one of L1..L5, and its local level when none of them has
\* such a level (level missing or invalid); every record of the result has a
\* level in L1..L5; a record no remote record addresses keeps all its local
\* fields.
C23_LevelOnlyFromValidRemote ==
    adv_pc = "merged" =>
        LET local  == adv_local.advice.items
            merged == adv_merged.advice.items
            advice == IF IsDict(adv_remote) /\ IsDict(Get(adv_remote, "advice", EmptyDict))
                      THEN Get(adv_remote, "advice", EmptyDict) ELSE EmptyDict
            remote == IF IsList(Get(advice, "items", JList(<< >>)))
                      THEN Get(advice, "items", JList(<< >>)).v ELSE << >>
            Hits(i) == { k \in 1..Len(remote) :
                           IsDict(remote[k]) /\ FindLocal(local, remote[k]) = i }
            Valid(i) == { k \in Hits(i) :
                            /\ "level" \in DOMAIN remote[k].v
                            /\ Upper(StrOf(remote[k].v["level"])) \in Levels }
        IN  /\ Len(merged) = Len(local)
            /\ \A i \in 1..Len(merged) :
                  /\ merged[i].level \in Levels
                  /\ Hits(i) = {} => merged[i] = local[i]
                  /\ (Hits(i) # {} /\ Valid(i) = {}) => merged[i].level = local[i].level
                  /\ Valid(i) # {} =>
                        LET k == CHOOSE k \in Valid(i) : \A j \in Valid(i) : j <= k
                        IN  merged[i].level = Upper(StrOf(remote[k].v["level"]))

\* a merge in which one record took a valid remote level that differs from
\* its local level, one was addressed with an invalid level only, and one
\* was not addressed
C23_Witness ==
    /\ adv_pc = "merged"
    /\ adv_remote = RemoteStray
    /\ Len(adv_items) = 3
    /\ \E i, j, k \in 1..3 :
          /\ adv_merged.advice.items[i].level = "L1"
          /\ adv_local.advice.items[i].level # "L1"
          /\ adv_local.advice.items[j].item_id = 1
          /\ adv_merged.advice.items[j].level = adv_local.advice.items[j].level
          /\ i # j /\ k # i /\ k # j
          /\ adv_merged.advice.items[k] = adv_local.advice.items[k]

\* C29: in the result of merge_remote_into_local every record whose level is
\* L4 or L5 has requires_confirmation true, whatever the remote response.
C29_HighTiersRequireConfirmation ==
    adv_pc = "merged" =>
        \A i \in 1..Len(adv_merged.advice.items) :
            adv_merged.advice.items[i].level \in {"L4", "L5"}
                => adv_merged.advice.items[i].requires_confirmation

\* C24: every identity entry of the payload carries an item identifier that
\* is the item_id the Local Advisor gives the item the entry was built from,
\* and a remote record that echoes the entry (its identifier, or without one
\* its path as sent) is reconciled onto the local record of that item.
C24_PayloadEntriesAreReconcilable ==
    LET n == Len(adv_items)
        local == build_local_ai_result(adv_items).advice.items
        identity == adv_payload.identity
        BuiltFrom(e, i) ==
            e.normalized_path = _mask_path(Lower(adv_items[i].path), adv_payload.meta.masked)
        Echo(e) == IF "item_id" \in DOMAIN e
                   THEN JDict([ item_id |-> JNum(e["item_id"]) ])
                   ELSE JDict([ target |-> JStr(e.path) ])
    IN  ( /\ adv_pc = "payload"
          /\ \A i, j \in 1..n : Lower(adv_items[i].path) = Lower(adv_items[j].path) => i = j )
        => \A i \in 1..n : \A k \in 1..Len(identity) :
              BuiltFrom(identity[k], i) =>
                  /\ "item_id" \in DOMAIN identity[k]
                  /\ identity[k]["item_id"] = i - 1
                  /\ FindLocal(local, Echo(identity[k])) # 0
                  /\ local[FindLocal(local, Echo(identity[k]))].item_id = i - 1

(***************************************************************************)
(* Retry loop and cache of the Advisory Client (SpecAI)                    *)
(***************************************************************************)
\* C26: the client sleeps only between attempts: 1 after the first failed
\* attempt and 2 after the second, and not after the third, so a call whose
\* three attempts fail has slept exactly twice.
C26_SleepsOnlyBetweenAttempts ==
    /\ \E k \in 0..2 : sleeps = SubSeq(<< 1, 2 >>, 1, k)
    /\ (ai_pc = "raised" /\ net_calls = MaxAttempts) => sleeps = << 1, 2 >>

\* C27: a call that ended in failure has left the cache, in memory and on
\* disk, as it was when the call began; during and after any call the
\* entries of other payloads are as they were; the cache differs from what
\* it was only after a successful attempt with the cache enabled, and then
\* by the entry under the payload's hash, which holds the returned result.
C27_FailedCallLeavesCache ==
    LET payload_hash == _payload_hash(payload)
        Others(before, now) ==
            \A h \in DOMAIN before \ { payload_hash } : h \in DOMAIN now /\ now[h] = before[h]
        Changed == cache # cache_before.memory \/ cache_file # cache_before.disk
    IN  ai_pc \in {"attempt", "returned", "raised"} =>
            /\ ai_pc = "raised" => ~Changed
            /\ Others(cache_before.memory, cache) /\ Others(cache_before.disk, cache_file)
            /\ DOMAIN cache \subseteq DOMAIN cache_before.memory \cup { payload_hash }
            /\ DOMAIN cache_file \subseteq DOMAIN cache \cup DOMAIN cache_before.disk
            /\ Changed => ( /\ ai_pc # "attempt" => ai_pc = "returned"
                            /\ cache_enabled
                            /\ ai_pc = "returned" => cache[payload_hash] = ai_result )

\* C25: the progress events of a call follow the lifecycle: "prepare", then
\* "cache_hit", which ends the sequence, or "cache_miss"; then for each
\* attempt N "request" N, "parse" N only if the HTTP call succeeded, and
\* "done", which ends the sequence, or "retry" N; "failed" once, after three
\* "retry" events.  A callback that raises changes neither the number of
\* attempts nor the result.
C25_ProgressLifecycle ==
    LET n == Len(events)
        Stage(i) == events[i].stage
        Count(st) == Cardinality({ i \in 1..n : Stage(i) = st })
        Follows(i) ==
            IF i = 1 THEN Stage(1) = "prepare"
            ELSE IF i = 2 THEN Stage(2) \in {"cache_hit", "cache_miss"}
            ELSE IF Stage(i) = "request"
                 THEN \/ events[i].attempt = 1 /\ Stage(i - 1) = "cache_miss"
                      \/ events[i - 1] = Event("retry", events[i].attempt - 1)
            ELSE IF Stage(i) = "parse" THEN events[i - 1] = Event("request", events[i].attempt)
            ELSE IF Stage(i) = "done" THEN Stage(i - 1) = "parse" /\ i = n
            ELSE IF Stage(i) = "retry"
                 THEN events[i - 1] \in { Event("request", events[i].attempt),
                                          Event("parse", events[i].attempt) }
            ELSE /\ Stage(i) = "failed" /\ i = n
                 /\ events[i - 1] = Event("retry", MaxAttempts)
                 /\ Count("retry") = MaxAttempts
    IN  /\ \A i \in 1..n : Follows(i)
        /\ ai_pc = "attempt" => Stage(n) \in {"cache_miss", "retry"}
        /\ ai_pc = "returned" => Stage(n) \in {"cache_hit", "done"}
        /\ ai_pc = "raised" => Stage(n) = "failed" /\ Count("failed") = 1
        \* "parse" of the latest attempt: only if the HTTP call succeeded
        /\ (n > 2 /\ Stage(n) \in {"retry", "failed"}) =>
              LET r == CHOOSE i \in 1..n : Stage(i) = "retry" /\ \A j \in (i + 1)..n : Stage(j) # "retry"
              IN  (Stage(r - 1) = "parse") <=> (last_error \notin TransportFailures)
        \* the attempts made and the result, whatever the callback did
        /\ net_calls = Count("request")
        /\ ai_pc = "raised" => net_calls = MaxAttempts /\ ai_result = JNull
        /\ (ai_pc = "returned" /\ Stage(n) = "done") => ai_result = _normalize_result(last_reply)
        /\ (ai_pc = "returned" /\ Stage(n) = "cache_hit") =>
              ai_result = _normalize_result(cache[_payload_hash(payload)])

\* a call in which the callback raised, one attempt got as far as parsing
\* the reply and all three attempts failed
C25_Witness ==
    /\ callback_raised
    /\ ai_pc = "raised"
    /\ events[Len(events)].stage = "failed"
    /\ \E i \in 1..Len(events) : events[i].stage = "parse"
    /\ \E i \in 1..Len(events) : events[i].stage = "request" /\ events[i + 1].stage = "retry"

(***************************************************************************)
(* Scan snapshot and stop flag (SpecUIFair, SpecUIStop)                    *)
(***************************************************************************)
\* C28: the item list on_ai_finished reconciles the response against and
\* applies it to is the item list start_ai built the payload from: when the
\* "finished" signal of the AIWorker is next to be handled, the items of the
\* window are the items of the payload, path by path.
C28_ResponseMeetsItsSnapshot ==
    (signals # << >> /\ Head(signals).name = "ai_finished") =>
        payload_items = [ i \in 1..Len(ui_items) |-> ui_items[i].path ]

\* C30: a scan ends as stopped only when stop_scan was issued while its
\* worker ran: start_scan leaves the stop flag cleared, whatever an earlier
\* stop_scan or an earlier stopped scan left in it; a stop_scan issued while
\* the worker runs is still set when the worker polls next, and the worker
\* then ends the scan as stopped.
C30_StopCancelsOnlyTheRunningScan ==
    /\ [](last_step = UIEvent("ScanWorker.run", "stopped") => stop_history = "during")
    /\ []((running.scan > 0 /\ stop_history = "during") => stop_flag)
    /\ [][ /\ (~scan_in_progress /\ scan_in_progress') => ~stop_flag'
           /\ (running'.scan < running.scan /\ stop_flag)
                 => last_step' = UIEvent("ScanWorker.run", "stopped") ]_vars

\* a scan that ran to its end although stop_scan had been issued before it
\* was started and the scan before it had been stopped
C30_Witness ==
    /\ last_step = UIEvent("ScanWorker.run", "emitted")
    /\ stop_history = "before"
    /\ Len(signals) = 1 /\ signals[1].name = "scan_finished" /\ Len(signals[1].result) = 3
    /\ Len(ui_items) = 2

====
